---- MODULE Spec2Model ----
(***************************************************************************)
(* Model of the inscription engine of boosts-demo: the coin selector       *)
(* (src/src/App.jsx selectUtxos / branchAndBound), the wallet capability   *)
(* dispatch (src/src/wallets.js getInscriptionCreationMethod, App.jsx      *)
(* createInscriptions), the envelope and transaction builders and the      *)
(* three commit/reveal signing flows.                                      *)
(*                                                                         *)
(* The specifications share the variables:                                 *)
(*   SelSpec      selectUtxos applied to bounded candidate lists, targets  *)
(*   Spec         the App component as wired: connect, disconnect, account *)
(*                change, createInscriptions with its dispatch             *)
(*   EnvelopeSpec getInscriptionScript applied to one inscription          *)
(*   ScriptSpec   getRevealScript, then getRevealTransactionV2, applied to *)
(*                an inscription list                                      *)
(*   CommitSpec   getCommitTransaction applied to fetched fee rates and    *)
(*                UTXO lists, then the reveal built from its result        *)
(*   FlowSpec     each of the three flow functions run from its entry with *)
(*                a connected wallet, every external call free to fail     *)
(*   SignSpec     wallet.signPsbts applied to the commit and reveal PSBTs  *)
(*   FlowEventSpec  FlowSpec with account-change and disconnect events     *)
(*   EncodeSpec   the loop of intToLeBytes on numbers up to 2^32 and above  *)
(*   FetchSpec    getConfirmedCardinalUtxos applied to a provider response *)
(*   GroupSpec    getInputsToSignGroupedNameless applied to a PSBT and     *)
(*                signing hints                                            *)
(***************************************************************************)
EXTENDS Integers, Sequences, FiniteSets, TLC

VARIABLES
    utxos,          \* candidate list handed to selectUtxos (sorted in place by it)
    targetAmount,   \* target handed to selectUtxos
    selection,      \* what the last selectUtxos call did
    wallet,         \* App state `wallet` (NoWallet = null)
    isConnected,    \* App state `isConnected`
    creationMethod, \* value wallet.getInscriptionCreationMethod() returned in the last createInscriptions
    startedFlows,   \* flow functions the last createInscriptions call invoked
    pendingAccount, \* account of a Unisat accountsChanged handler suspended at getPublicKey ("none" = no handler)
    flow,           \* flow function being run (FlowSpec)
    pc,             \* index of the current statement of the flow function (0 = none)
    awaiting,       \* external call the flow is suspended on ("" = none)
    signMode,       \* how wallet.signPsbts reaches the provider: "batch" or "sequential"
    signed,         \* PSBTs the wallet has returned signed
    signRequests,   \* signing requests sent to the wallet provider, in order
    broadcasts,     \* broadcast requests issued, in order
    failedAt,       \* statement at which the flow threw ("" = it has not)
    commitTxId,     \* commit id the reveal input references
    signedCommitId, \* id of the signed, extracted commit transaction
    inscriptions,   \* inscription list handed to the script and transaction builders
    script,         \* script the last getRevealScript call returned
    feeRate,        \* fee rate getRecommendedFees returned (sat/vB)
    revealVSize,    \* estimated reveal vsize handed to getCommitTransaction
    commitTemplate, \* commit PSBT getCommitTransaction built
    revealTemplate, \* reveal PSBT getRevealTransactionV2 built
    encInput,       \* number handed to intToLeBytes (EncodeSpec)
    encValue,       \* `value` of the loop of intToLeBytes
    encBytes,       \* `bytes` of the loop of intToLeBytes
    utxosJson,      \* body of the address/utxo response (FetchSpec)
    psbtInputs,     \* psbt.data.inputs handed to getInputsToSignGroupedNameless
    signingIndexes, \* its signingIndexes argument (null or a list of hints)
    inputsToSign    \* what the call returned

vars == <<utxos, targetAmount, selection, wallet, isConnected, creationMethod,
          startedFlows, pendingAccount, flow, pc, awaiting, signMode, signed, signRequests,
          broadcasts, failedAt, commitTxId, signedCommitId,
          inscriptions, script, feeRate, revealVSize, commitTemplate, revealTemplate,
          encInput, encValue, encBytes, utxosJson,
          psbtInputs, signingIndexes, inputsToSign>>

selVars == <<utxos, targetAmount, selection>>
appVars == <<wallet, isConnected, creationMethod, startedFlows, pendingAccount>>
flowVars == <<flow, pc, awaiting, signMode, signed, signRequests, broadcasts,
              failedAt, commitTxId, signedCommitId>>
txVars == <<inscriptions, script, feeRate, revealVSize, commitTemplate, revealTemplate>>
encVars == <<encInput, encValue, encBytes>>
groupVars == <<psbtInputs, signingIndexes, inputsToSign>>

(***************************************************************************)
(* Bounds                                                                  *)
(***************************************************************************)
MaxUtxos == 4       \* longest candidate list
MaxEffective == 3   \* largest effective value of a candidate
MaxNegative == 1    \* most negative effective value is -MaxNegative
MaxTarget == 6      \* largest target

EffectiveValues == (0 - MaxNegative) .. MaxEffective
\* getCommitTransaction passes ceil(revealVSize*feeRate + postage) + 96.5*feeRate,
\* which is positive; 0 and -1 are kept as inputs of the function itself.
Targets == (0 - 1) .. MaxTarget

(***************************************************************************)
(* Coin selection: App.jsx 718-784                                         *)
(***************************************************************************)
\* A candidate as selectUtxos reads it: its identity and effectiveValue.
Utxo(i, ev) == [id |-> i, effectiveValue |-> ev]

CandidateLists ==
    UNION { { [i \in 1..n |-> Utxo(i, f[i])] : f \in [1..n -> EffectiveValues] } : n \in 0..MaxUtxos }

RECURSIVE SumEffective(_)
\* remainingUtxos.reduce((acc, utxo) => acc + utxo.effectiveValue, 0)
SumEffective(s) ==
    IF s = <<>> THEN 0 ELSE s[1].effectiveValue + SumEffective(Tail(s))

\* Position at which a stable ascending sort places u in the sorted list s:
\* after every element that does not compare greater.
InsertSorted(s, u) ==
    LET k == Cardinality({ j \in 1..Len(s) : s[j].effectiveValue <= u.effectiveValue })
    IN  SubSeq(s, 1, k) \o <<u>> \o SubSeq(s, k + 1, Len(s))

RECURSIVE SortFrom(_, _)
SortFrom(s, acc) ==
    IF s = <<>> THEN acc ELSE SortFrom(Tail(s), InsertSorted(acc, s[1]))

\* utxos.sort((a, b) => a.effectiveValue - b.effectiveValue): stable, ascending.
sortByEffectiveValue(s) == SortFrom(s, <<>>)

NoBest == [found |-> FALSE, bestSolution |-> <<>>, minWaste |-> 0]

RECURSIVE explore(_, _, _, _, _, _)
RECURSIVE exploreBranches(_, _, _, _, _, _, _)

\* explore without the "unreachable target" pruning.
exploreNoReachPrune(remainingUtxos, selectedUtxos, currentSum, depth, target, best) ==
    IF currentSum >= target
    THEN LET waste == currentSum - target
         IN  IF (~best.found) \/ waste < best.minWaste
             THEN [found |-> TRUE, bestSolution |-> selectedUtxos, minWaste |-> waste]
             ELSE best
    ELSE IF depth > Len(remainingUtxos)
    THEN best
    ELSE exploreBranches(remainingUtxos, selectedUtxos, currentSum, depth, target, 1, best)

\* One call of explore; best carries bestSolution/minWaste (found = FALSE is
\* bestSolution = null, minWaste = Infinity) through the depth-first search.
explore(remainingUtxos, selectedUtxos, currentSum, depth, target, best) ==
    IF currentSum >= target
    THEN LET waste == currentSum - target
         IN  IF (~best.found) \/ waste < best.minWaste
             THEN [found |-> TRUE, bestSolution |-> selectedUtxos, minWaste |-> waste]
             ELSE best
    ELSE IF currentSum + SumEffective(remainingUtxos) < target
    THEN best
    ELSE IF depth > Len(remainingUtxos)
    THEN best
    ELSE exploreBranches(remainingUtxos, selectedUtxos, currentSum, depth, target, 1, best)

RECURSIVE exploreBranchesSameAgain(_, _, _, _, _, _, _)
\* The for loop offering the UTXO just taken to the deeper call again (slice(i)).
exploreBranchesSameAgain(remainingUtxos, selectedUtxos, currentSum, depth, target, i, best) ==
    IF i > Len(remainingUtxos)
    THEN best
    ELSE exploreBranchesSameAgain(remainingUtxos, selectedUtxos, currentSum, depth, target,
            i + 1,
            explore(SubSeq(remainingUtxos, i, Len(remainingUtxos)),
                    Append(selectedUtxos, remainingUtxos[i]),
                    currentSum + remainingUtxos[i].effectiveValue,
                    depth + 1, target, best))

\* The for loop of explore from index i (1-based) on.
exploreBranches(remainingUtxos, selectedUtxos, currentSum, depth, target, i, best) ==
    IF i > Len(remainingUtxos)
    THEN best
    ELSE exploreBranches(remainingUtxos, selectedUtxos, currentSum, depth, target, i + 1,
            explore(SubSeq(remainingUtxos, i + 1, Len(remainingUtxos)),
                    Append(selectedUtxos, remainingUtxos[i]),
                    currentSum + remainingUtxos[i].effectiveValue,
                    depth + 1, target, best))

branchAndBound(us, target) == explore(us, <<>>, 0, 0, target, NoBest)

RECURSIVE exploreCalls(_, _, _, _, _)
RECURSIVE exploreCallsBranches(_, _, _, _, _, _)
RECURSIVE exploreCallsBranchesAllOthers(_, _, _, _, _, _)

\* A loop that recurses on every other remaining UTXO, not only the later ones.
exploreCallsBranchesAllOthers(remainingUtxos, selectedUtxos, currentSum, depth, target, i) ==
    IF i > Len(remainingUtxos)
    THEN <<>>
    ELSE exploreCalls(SubSeq(remainingUtxos, 1, i - 1)
                        \o SubSeq(remainingUtxos, i + 1, Len(remainingUtxos)),
                      Append(selectedUtxos, remainingUtxos[i]),
                      currentSum + remainingUtxos[i].effectiveValue,
                      depth + 1, target)
         \o exploreCallsBranchesAllOthers(remainingUtxos, selectedUtxos, currentSum, depth,
                                          target, i + 1)

RECURSIVE exploreCallsBranchesSameAgain(_, _, _, _, _, _)
\* A loop that offers the UTXO just taken to the deeper call again (slice(i)).
exploreCallsBranchesSameAgain(remainingUtxos, selectedUtxos, currentSum, depth, target, i) ==
    IF i > Len(remainingUtxos)
    THEN <<>>
    ELSE exploreCalls(SubSeq(remainingUtxos, i, Len(remainingUtxos)),
                      Append(selectedUtxos, remainingUtxos[i]),
                      currentSum + remainingUtxos[i].effectiveValue,
                      depth + 1, target)
         \o exploreCallsBranchesSameAgain(remainingUtxos, selectedUtxos, currentSum, depth,
                                          target, i + 1)

\* The selectedUtxos arguments of the calls of explore (App.jsx 752-779) made
\* by one call and below it, in call order: which calls are made depends on
\* the sums and the depth only, not on bestSolution.
exploreCalls(remainingUtxos, selectedUtxos, currentSum, depth, target) ==
    <<selectedUtxos>>
    \o (IF currentSum >= target
        THEN <<>>
        ELSE IF currentSum + SumEffective(remainingUtxos) < target
        THEN <<>>
        ELSE IF depth > Len(remainingUtxos)
        THEN <<>>
        ELSE exploreCallsBranches(remainingUtxos, selectedUtxos, currentSum, depth,
                                  target, 1))

\* The calls made by the for loop of explore from index i (1-based) on.
exploreCallsBranches(remainingUtxos, selectedUtxos, currentSum, depth, target, i) ==
    IF i > Len(remainingUtxos)
    THEN <<>>
    ELSE exploreCalls(SubSeq(remainingUtxos, i + 1, Len(remainingUtxos)),
                      Append(selectedUtxos, remainingUtxos[i]),
                      currentSum + remainingUtxos[i].effectiveValue,
                      depth + 1, target)
         \o exploreCallsBranches(remainingUtxos, selectedUtxos, currentSum, depth,
                                 target, i + 1)

\* Step 1: the first candidate whose effectiveValue equals the target.
ExactMatches(us, target) == { i \in 1..Len(us) : us[i].effectiveValue = target }

exactMatch(us, target) ==
    LET m == ExactMatches(us, target)
    IN  IF m = {} THEN <<>> ELSE <<us[CHOOSE i \in m : \A j \in m : i <= j]>>

\* Step 3: prefixes of the sorted list; the shortest whose sum reaches the target.
ReachingPrefixes(us, target) ==
    { n \in 1..Len(us) : SumEffective(SubSeq(us, 1, n)) >= target }

\* accumulator whose comparison is > instead of >=
accumulatorStrict(us, target) ==
    LET p == { n \in 1..Len(us) : SumEffective(SubSeq(us, 1, n)) > target }
    IN  IF p = {}
        THEN [kind |-> "throw", selected |-> <<>>]
        ELSE [kind |-> "accumulator",
              selected |-> SubSeq(us, 1, CHOOSE n \in p : \A k \in p : n <= k)]

\* accumulator that returns after the first candidate with a positive running total
accumulatorPositive(us, target) ==
    LET p == { n \in 1..Len(us) : SumEffective(SubSeq(us, 1, n)) > 0 }
    IN  IF p = {}
        THEN [kind |-> "throw", selected |-> <<>>]
        ELSE [kind |-> "accumulator",
              selected |-> SubSeq(us, 1, CHOOSE n \in p : \A k \in p : n <= k)]

accumulator(us, target) ==
    LET p == ReachingPrefixes(us, target)
    IN  IF p = {}
        THEN [kind |-> "throw", selected |-> <<>>]
        ELSE [kind |-> "accumulator",
              selected |-> SubSeq(us, 1, CHOOSE n \in p : \A k \in p : n <= k)]

NotCalled == [called |-> FALSE, found |-> FALSE, bestSolution |-> <<>>]

\* selectUtxos with branch-and-bound tried before the exact-match scan
selectSortedBnbFirst(us, target) ==
    LET b == branchAndBound(us, target)
        bnb == [called |-> TRUE, found |-> b.found, bestSolution |-> b.bestSolution]
    IN  IF b.found
        THEN [kind |-> "bnb", selected |-> b.bestSolution, bnb |-> bnb]
        ELSE IF exactMatch(us, target) # <<>>
        THEN [kind |-> "exact", selected |-> exactMatch(us, target), bnb |-> bnb]
        ELSE LET a == accumulator(us, target)
             IN  [kind |-> a.kind, selected |-> a.selected, bnb |-> bnb]

\* selectUtxos after its sort: exact match, then branch and bound (an array,
\* even an empty one, is truthy), then the accumulator, else the throw.
selectSorted(us, target) ==
    IF exactMatch(us, target) # <<>>
    THEN [kind |-> "exact", selected |-> exactMatch(us, target), bnb |-> NotCalled]
    ELSE LET b == branchAndBound(us, target)
             bnb == [called |-> TRUE, found |-> b.found, bestSolution |-> b.bestSolution]
         IN  IF b.found
             THEN [kind |-> "bnb", selected |-> b.bestSolution, bnb |-> bnb]
             ELSE LET a == accumulator(us, target)
                  IN  [kind |-> a.kind, selected |-> a.selected, bnb |-> bnb]

selectUtxos(us, target) == selectSorted(sortByEffectiveValue(us), target)

NotSelected == [kind |-> "none", selected |-> <<>>, bnb |-> NotCalled]

(***************************************************************************)
(* Idle values of the variables a specification does not use               *)
(***************************************************************************)
NoWallet == [walletType |-> "none", supportsCustomAddressSigning |-> FALSE,
             supportsKeyPathSigning |-> FALSE, paymentAddress |-> "none",
             ordinalsAddress |-> "none", hasMethods |-> FALSE]

SelIdle == utxos = <<>> /\ targetAmount = 0 /\ selection = NotSelected

AppIdle == wallet = NoWallet /\ isConnected = FALSE /\ creationMethod = "none"
           /\ startedFlows = {} /\ pendingAccount = "none"

FlowIdle == flow = "none" /\ pc = 0 /\ awaiting = "" /\ signMode = "none" /\ signed = {}
            /\ signRequests = <<>> /\ broadcasts = <<>>
            /\ failedAt = "" /\ commitTxId = "none" /\ signedCommitId = "none"

NoTemplate == [inputs |-> <<>>, outputs |-> <<>>]

TxIdle == inscriptions = <<>> /\ script = <<>> /\ feeRate = 0 /\ revealVSize = 0
          /\ commitTemplate = NoTemplate /\ revealTemplate = NoTemplate

\* A number as its 16-bit halves: hi * 65536 + lo
Halves(hi, lo) == [hi |-> hi, lo |-> lo]

EncIdle == encInput = Halves(0, 0) /\ encValue = Halves(0, 0) /\ encBytes = <<>>
FetchIdle == utxosJson = <<>>

\* No call of getInputsToSignGroupedNameless made yet.
NotGrouped == [called |-> FALSE, threw |-> FALSE, groups |-> [a \in {} |-> <<>>]]
GroupIdle == psbtInputs = <<>> /\ signingIndexes = <<>> /\ inputsToSign = NotGrouped

(***************************************************************************)
(* SelSpec: selectUtxos applied once to a candidate list and a target      *)
(***************************************************************************)
SelInit ==
    /\ utxos \in CandidateLists
    /\ targetAmount \in Targets
    /\ selection = NotSelected
    /\ AppIdle
    /\ FlowIdle
    /\ TxIdle
    /\ EncIdle
    /\ FetchIdle
    /\ GroupIdle

\* One call selectUtxos(utxos, targetAmount): the list is sorted in place.
SelectUtxos ==
    /\ selection.kind = "none"
    /\ selection' = selectUtxos(utxos, targetAmount)
    /\ utxos' = sortByEffectiveValue(utxos)
    /\ UNCHANGED <<targetAmount, appVars, flowVars>>
    /\ UNCHANGED txVars
    /\ UNCHANGED <<encVars, utxosJson, groupVars>>

SelNext == SelectUtxos

SelSpec == SelInit /\ [][SelNext]_vars

(***************************************************************************)
(* Properties of the coin selector                                         *)
(***************************************************************************)
Returned == selection.kind \in {"exact", "bnb", "accumulator"}
Called == selection.kind # "none"

RECURSIVE SumAt(_, _)
\* Sum of the effective values at the positions in idx.
SumAt(us, idx) ==
    IF idx = {} THEN 0
    ELSE LET i == CHOOSE j \in idx : TRUE
         IN  us[i].effectiveValue + SumAt(us, idx \ {i})

Positions(us) == SUBSET (1..Len(us))
ReachingSubsets(us, target) == { S \in Positions(us) : SumAt(us, S) >= target }

\* C1: whenever selectUtxos returns a selection, the effective values of the
\* returned UTXOs sum to at least the target, whichever step produced it.
C1_Coverage ==
    Returned => SumEffective(selection.selected) >= targetAmount

C1_Witness ==
    /\ selection.kind = "bnb"
    /\ Len(selection.selected) >= 2
    /\ SumEffective(selection.selected) > targetAmount

\* C2 as stated: a candidate list whose effective values sum to less than
\* the (positive) target always makes selectUtxos throw.
C2_Original ==
    (Called /\ targetAmount > 0 /\ SumEffective(utxos) < targetAmount)
        => selection.kind = "throw"

\* C2 amended: with a positive target, a total below the target and no single
\* candidate whose effective value equals the target, selectUtxos throws and
\* returns nothing.
C2_InsufficientThrows ==
    (Called /\ targetAmount > 0 /\ SumEffective(utxos) < targetAmount
        /\ ExactMatches(utxos, targetAmount) = {})
        => (selection.kind = "throw" /\ selection.selected = <<>>)

C2_Witness ==
    /\ selection.kind = "throw"
    /\ targetAmount > 0
    /\ \E i \in 1..Len(utxos) : utxos[i].effectiveValue < 0
    /\ \E i \in 1..Len(utxos) : utxos[i].effectiveValue > targetAmount

\* C3: a candidate list whose total effective value reaches the target never
\* makes selectUtxos throw: it returns a selection.
C3_SufficientReturns ==
    (Called /\ SumEffective(utxos) >= targetAmount) => Returned

C3_Witness ==
    /\ selection.kind = "accumulator"
    /\ selection.bnb.called
    /\ ~selection.bnb.found
    /\ SumEffective(utxos) >= targetAmount

\* C4 as stated: branchAndBound returns a subset of minimum waste among the
\* subsets that reach the target when one exists, and none only when no subset
\* reaches the target.
C4_BnbOptimal ==
    (selection.bnb.called /\ targetAmount > 0) =>
        IF ReachingSubsets(utxos, targetAmount) = {}
        THEN ~selection.bnb.found
        ELSE /\ selection.bnb.found
             /\ SumEffective(selection.bnb.bestSolution) >= targetAmount
             /\ \A S \in ReachingSubsets(utxos, targetAmount) :
                    SumEffective(selection.bnb.bestSolution) <= SumAt(utxos, S)

\* C5 as stated: when some subset of the candidates sums exactly to the
\* target, selectUtxos returns a single-element exact match.
C5_Original ==
    (Called /\ targetAmount > 0
        /\ \E S \in Positions(utxos) : SumAt(utxos, S) = targetAmount)
        => (selection.kind = "exact" /\ Len(selection.selected) = 1)

\* C5 amended: when some single candidate's effective value equals the target,
\* selectUtxos returns exactly one such candidate, decided before
\* branch-and-bound is run.
C5_SingleExactFirst ==
    (Called /\ ExactMatches(utxos, targetAmount) # {})
        => /\ selection.kind = "exact"
           /\ Len(selection.selected) = 1
           /\ selection.selected[1].effectiveValue = targetAmount
           /\ ~selection.bnb.called

C5_Witness ==
    /\ selection.kind = "exact"
    /\ \E S \in Positions(utxos) :
          Cardinality(S) >= 2 /\ SumAt(utxos, S) = targetAmount

(***************************************************************************)
(* Wallet adapters: wallets.js 210-375 (Wallet), 377-939 (subclasses)      *)
(***************************************************************************)
\* Script kind of an address the provider hands out. OTHER is an address that
\* parses but is none of the four kinds getAddressType accepts.
ScriptKinds == {"P2TR", "P2WPKH", "P2SH-P2WPKH", "P2PKH", "OTHER"}

WalletTypes == {"unisat", "xverse", "leather", "okx", "magiceden", "phantom", "oyl"}

\* super(walletType, supportsCustomAddressSigning, supportsKeyPathSigning)
Capability(t) ==
    CASE t = "unisat"    -> <<TRUE, FALSE>>
      [] t = "xverse"    -> <<TRUE, TRUE>>
      [] t = "leather"   -> <<FALSE, FALSE>>
      [] t = "okx"       -> <<TRUE, TRUE>>
      [] t = "magiceden" -> <<TRUE, TRUE>>
      [] t = "phantom"   -> <<TRUE, TRUE>>
      [] t = "oyl"       -> <<FALSE, FALSE>>

\* App.jsx 222: network is 'testnet' and setNetwork is never called.
network == "testnet"

\* Whether connect(network) can return: MagicEden and Phantom throw unless the
\* network is mainnet; OylWallet.connect reads an undeclared `payment`.
CanConnect(t) ==
    CASE t \in {"magiceden", "phantom"} -> network = "mainnet"
      [] t = "oyl" -> FALSE
      [] OTHER -> TRUE

\* <<paymentAddress, ordinalsAddress>> pairs connect(network) can store.
AccountsOf(t) ==
    CASE t \in {"unisat", "okx"} -> { <<k, k>> : k \in ScriptKinds }
      [] t = "leather" -> { <<"P2WPKH", "P2TR">> }
      [] OTHER -> ScriptKinds \X ScriptKinds

WalletInstance(t, accounts) ==
    [walletType |-> t,
     supportsCustomAddressSigning |-> Capability(t)[1],
     supportsKeyPathSigning |-> Capability(t)[2],
     paymentAddress |-> accounts[1],
     ordinalsAddress |-> accounts[2],
     hasMethods |-> TRUE]

ConnectedWallets ==
    { WalletInstance(t, a) : t \in { x \in WalletTypes : CanConnect(x) },
                             a \in ScriptKinds \X ScriptKinds }
    \cap UNION { { WalletInstance(t, a) : a \in AccountsOf(t) } : t \in WalletTypes }

isP2TR(kind) == kind = "P2TR"
isP2WPKH(kind) == kind = "P2WPKH"

\* The routing without the payment address check: every wallet that can sign the
\* reveal gets the one-sign method.
getInscriptionCreationMethodNoPaymentCheck(w) ==
    IF ~(isP2TR(w.paymentAddress) \/ isP2TR(w.ordinalsAddress)) THEN "ephemeral"
    ELSE IF ~w.supportsCustomAddressSigning THEN "ephemeral_with_wallet_key_path"
    ELSE "wallet_one_sign"

\* wallets.js 333-344
getInscriptionCreationMethod(w) ==
    IF ~(isP2TR(w.paymentAddress) \/ isP2TR(w.ordinalsAddress)) THEN "ephemeral"
    ELSE IF ~w.supportsCustomAddressSigning THEN "ephemeral_with_wallet_key_path"
    ELSE IF isP2TR(w.paymentAddress) \/ isP2WPKH(w.paymentAddress) THEN "wallet_one_sign"
    ELSE "wallet_two_sign"

\* App.jsx 306-321: the three independent ifs on creationMethod.
FlowsStartedFor(method) ==
    { f \in {"ephemeral", "one_sign", "two_sign"} :
        \/ (f = "ephemeral" /\ method = "ephemeral_key")
        \/ (f = "one_sign" /\ method = "tweaked_key_one_sign")
        \/ (f = "two_sign" /\ method = "tweaked_key_two_sign") }

(***************************************************************************)
(* Spec: the App component (App.jsx 221-322)                               *)
(***************************************************************************)
Init ==
    /\ SelIdle
    /\ AppIdle
    /\ FlowIdle
    /\ TxIdle
    /\ EncIdle
    /\ FetchIdle
    /\ GroupIdle

\* connectWallet(walletType): on success the instance becomes the App's wallet;
\* a throw in connect leaves the state as it was.
ConnectWallet ==
    /\ ~isConnected
    /\ \E t \in WalletTypes :
         IF CanConnect(t)
         THEN \E a \in AccountsOf(t) :
                /\ wallet' = WalletInstance(t, a)
                /\ isConnected' = TRUE
                /\ creationMethod' = "none"
                /\ startedFlows' = {}
                /\ UNCHANGED pendingAccount
         ELSE UNCHANGED appVars
    /\ UNCHANGED <<selVars, flowVars>>
    /\ UNCHANGED txVars
    /\ UNCHANGED <<encVars, utxosJson, groupVars>>

\* disconnectWallet: wallet.removeAccountChangeListener() throws on a wallet
\* state that is a spread copy (no prototype methods), before any setter runs.
DisconnectWallet ==
    /\ isConnected
    /\ IF wallet.hasMethods
       THEN /\ wallet' = NoWallet
            /\ isConnected' = FALSE
            /\ creationMethod' = "none"
            /\ startedFlows' = {}
            /\ UNCHANGED pendingAccount
       ELSE UNCHANGED appVars
    /\ UNCHANGED <<selVars, flowVars>>
    /\ UNCHANGED txVars
    /\ UNCHANGED <<encVars, utxosJson, groupVars>>

\* OkxWallet's accountChanged listener (wallets.js 712-722) for a new account,
\* and the callback of connectWallet (App.jsx 259-267) it calls: the instance's
\* fields are rewritten and wallet becomes a spread copy of the instance.
OkxAccountChanged ==
    /\ isConnected
    /\ wallet.walletType = "okx"
    /\ \E a \in AccountsOf("okx") :
         wallet' = [WalletInstance("okx", a) EXCEPT !.hasMethods = FALSE]
    /\ creationMethod' = "none"
    /\ startedFlows' = {}
    /\ UNCHANGED <<isConnected, pendingAccount, selVars, flowVars>>
    /\ UNCHANGED txVars
    /\ UNCHANGED <<encVars, utxosJson, groupVars>>

\* UnisatWallet's accountsChanged listener (wallets.js 451-462) called with a
\* non-empty account list: it suspends at await window.unisat.getPublicKey().
UnisatAccountsChanged ==
    /\ isConnected
    /\ wallet.walletType = "unisat"
    /\ pendingAccount = "none"
    /\ \E k \in ScriptKinds : pendingAccount' = k
    /\ UNCHANGED <<wallet, isConnected, creationMethod, startedFlows, selVars, flowVars>>
    /\ UNCHANGED txVars
    /\ UNCHANGED <<encVars, utxosJson, groupVars>>

\* The suspended Unisat handler resumes: it rewrites the instance's fields and
\* calls the callback, which stores a spread copy of the instance as wallet.
UnisatAccountsChangedResume ==
    /\ pendingAccount # "none"
    /\ wallet' = [WalletInstance("unisat", <<pendingAccount, pendingAccount>>)
                     EXCEPT !.hasMethods = FALSE]
    /\ pendingAccount' = "none"
    /\ creationMethod' = "none"
    /\ startedFlows' = {}
    /\ UNCHANGED <<isConnected, selVars, flowVars>>
    /\ UNCHANGED txVars
    /\ UNCHANGED <<encVars, utxosJson, groupVars>>

\* handleDisconnect (wallets.js 273-281) reaching the callback with
\* disconnected: true (Unisat/OKX on an empty account, Xverse on any change).
AccountDisconnected ==
    /\ isConnected
    /\ wallet.walletType \in {"unisat", "okx", "xverse"}
    /\ wallet' = NoWallet
    /\ isConnected' = FALSE
    /\ creationMethod' = "none"
    /\ startedFlows' = {}
    /\ UNCHANGED <<pendingAccount, selVars, flowVars>>
    /\ UNCHANGED txVars
    /\ UNCHANGED <<encVars, utxosJson, groupVars>>

\* createInscriptions (App.jsx 276-322): the method is read from the wallet and
\* compared with the three literals; a wallet without prototype methods throws.
CreateInscriptions ==
    /\ isConnected
    /\ IF wallet.hasMethods
       THEN /\ creationMethod' = getInscriptionCreationMethod(wallet)
            /\ startedFlows' = FlowsStartedFor(getInscriptionCreationMethod(wallet))
       ELSE /\ creationMethod' = "TypeError"
            /\ startedFlows' = {}
    /\ UNCHANGED <<wallet, isConnected, pendingAccount, selVars, flowVars>>
    /\ UNCHANGED txVars
    /\ UNCHANGED <<encVars, utxosJson, groupVars>>

Next ==
    \/ ConnectWallet
    \/ DisconnectWallet
    \/ OkxAccountChanged
    \/ UnisatAccountsChanged
    \/ UnisatAccountsChangedResume
    \/ AccountDisconnected
    \/ CreateInscriptions

Spec == Init /\ [][Next]_vars

(***************************************************************************)
(* Inscription envelopes: App.jsx 52-143                                   *)
(***************************************************************************)
MaxInscriptions == 3   \* longest inscription list
MaxChunks == 2         \* content lengths go up to MaxChunks chunks and one byte
ChunkSize == 520       \* bytes per content push

\* A field that may be null: <<>> is null, <<v>> holds v.
null == <<>>
Some(v) == <<v>>

\* Script elements: opcode words, data pushes (byte sequences), small numbers.
Op(word) == [kind |-> "op", word |-> word, data |-> <<>>, num |-> 0]
Push(bytes) == [kind |-> "push", word |-> "", data |-> bytes, num |-> 0]
Num(n) == [kind |-> "num", word |-> "", data |-> <<>>, num |-> n]

RECURSIVE Utf8(_)
\* TextEncoder.encode on a sequence of code points below 2048: one byte below
\* 128, two bytes from 128 on.
Utf8(text) ==
    IF text = <<>> THEN <<>>
    ELSE LET cp == Head(text) IN
         (IF cp < 128 THEN <<cp>>
          ELSE <<192 + (cp \div 64), 128 + (cp % 64)>>) \o Utf8(Tail(text))

\* An encoding of fixed width: always two bytes.
intToLeBytesTwoBytes(value) == <<value % 256, (value \div 256) % 256>>

RECURSIVE intToLeBytes(_)
\* while (value > 0) { bytes.push(value & 0xff); value >>= 8 }
intToLeBytes(value) ==
    IF value > 0 THEN <<value % 256>> \o intToLeBytes(value \div 256) ELSE <<>>

Reverse(bytes) == [i \in 1..Len(bytes) |-> bytes[Len(bytes) + 1 - i]]

\* getDelegateBytes: the id "<txHash>i<index>" as reversed hash bytes followed
\* by the index, little-endian.
getDelegateBytes(delegateId) ==
    Reverse(delegateId.txHash) \o intToLeBytes(delegateId.index)

\* content.subarray(from, from + ChunkSize), positions counted from 0
Subarray(content, from) ==
    SubSeq(content, from + 1, IF from + ChunkSize < Len(content)
                              THEN from + ChunkSize ELSE Len(content))

RECURSIVE contentChunksFullOnly(_, _)
\* The chunk loop that stops before a final chunk shorter than ChunkSize.
contentChunksFullOnly(content, i) ==
    IF i + ChunkSize <= Len(content)
    THEN <<Push(Subarray(content, i))>> \o contentChunksFullOnly(content, i + ChunkSize)
    ELSE <<>>

RECURSIVE contentChunks(_, _)
\* for (let i = 0; i < content.length; i += 520) push content.subarray(i, i + 520)
contentChunks(content, i) ==
    IF i < Len(content)
    THEN <<Push(Subarray(content, i))>> \o contentChunks(content, i + ChunkSize)
    ELSE <<>>

\* The envelope with the metaprotocol pair ahead of the content-encoding pair.
getInscriptionScriptMetaprotocolFirst(ins) ==
    <<Op("OP_0"), Op("OP_IF"), Push(Utf8(<<111, 114, 100>>))>>
    \o (IF ins.contentType # null
        THEN <<Num(1), Push(Utf8(ins.contentType[1]))>> ELSE <<>>)
    \o (IF ins.pointer # null
        THEN <<Num(2), Push(intToLeBytes(ins.pointer[1]))>> ELSE <<>>)
    \o (IF ins.metaprotocol # null
        THEN <<Num(7), Push(Utf8(ins.metaprotocol[1]))>> ELSE <<>>)
    \o (IF ins.contentEncoding # null
        THEN <<Num(9), Push(Utf8(ins.contentEncoding[1]))>> ELSE <<>>)
    \o (IF ins.delegate # null
        THEN <<Num(11), Push(getDelegateBytes(ins.delegate[1]))>> ELSE <<>>)
    \o (IF ins.content # null /\ Len(ins.content[1]) > 0
        THEN <<Op("OP_0")>> \o contentChunks(ins.content[1], 0) ELSE <<>>)
    \o <<Op("OP_ENDIF")>>

\* Inscription.getInscriptionScript, App.jsx 93-126
getInscriptionScript(ins) ==
    <<Op("OP_0"), Op("OP_IF"), Push(Utf8(<<111, 114, 100>>))>>
    \o (IF ins.contentType # null
        THEN <<Num(1), Push(Utf8(ins.contentType[1]))>> ELSE <<>>)
    \o (IF ins.pointer # null
        THEN <<Num(2), Push(intToLeBytes(ins.pointer[1]))>> ELSE <<>>)
    \o (IF ins.contentEncoding # null
        THEN <<Num(9), Push(Utf8(ins.contentEncoding[1]))>> ELSE <<>>)
    \o (IF ins.metaprotocol # null
        THEN <<Num(7), Push(Utf8(ins.metaprotocol[1]))>> ELSE <<>>)
    \o (IF ins.delegate # null
        THEN <<Num(11), Push(getDelegateBytes(ins.delegate[1]))>> ELSE <<>>)
    \o (IF ins.content # null /\ Len(ins.content[1]) > 0
        THEN <<Op("OP_0")>> \o contentChunks(ins.content[1], 0) ELSE <<>>)
    \o <<Op("OP_ENDIF")>>

\* The pointer write of the loop of getRevealScript (inscription.pointer =
\* running_postage on every inscription).
pointerAssignedToAll(i, running_postage, pointer) == Some(running_postage)

\* The pointer write adding the running postage to the pointer already held.
pointerAssignedAdded(i, running_postage, pointer) ==
    IF i > 1
    THEN Some(running_postage + (IF pointer = null THEN 0 ELSE pointer[1]))
    ELSE pointer

\* if (i>0) inscription.pointer = running_postage; positions counted from 1 here
pointerAssigned(i, running_postage, pointer) ==
    IF i > 1 THEN Some(running_postage) ELSE pointer

RECURSIVE revealScriptLoop(_, _, _, _)
\* The loop of getRevealScript from position i on: the inscriptions with their
\* pointers written, and the script extended by every envelope.
revealScriptLoop(list, i, running_postage, scriptSoFar) ==
    IF i > Len(list) THEN [inscriptions |-> list, script |-> scriptSoFar]
    ELSE LET inscription ==
                 [list[i] EXCEPT !.pointer = pointerAssigned(i, running_postage, @)]
         IN revealScriptLoop([list EXCEPT ![i] = inscription], i + 1,
                             running_postage + inscription.postage,
                             scriptSoFar \o getInscriptionScript(inscription))

\* getRevealScript, App.jsx 130-143
getRevealScript(list, revealPublicKey) ==
    revealScriptLoop(list, 1, 0, <<Push(revealPublicKey), Op("OP_CHECKSIG")>>)
\* new Inscription({...}), App.jsx 68-91
Inscription(content, contentType, contentEncoding, metaprotocol, delegate, pointer, postage) ==
    [content |-> content, contentType |-> contentType,
     contentEncoding |-> contentEncoding, metaprotocol |-> metaprotocol,
     delegate |-> delegate, pointer |-> pointer, postage |-> postage]

(***************************************************************************)
(* EnvelopeSpec: getInscriptionScript applied once to one inscription      *)
(***************************************************************************)
\* Content lengths around the chunk boundaries.
ContentLengths ==
    { n \in { k * ChunkSize + d : k \in 0..MaxChunks, d \in {0 - 1, 0, 1} } : n >= 0 }

\* A content of a given length whose bytes differ along it.
ContentOfLength(n) == [i \in 1..n |-> (7 * i) % 256]

ContentChoices == {null} \cup { Some(ContentOfLength(n)) : n \in ContentLengths }
\* null, "" and "t"
ContentTypeChoices == {null, Some(<<>>), Some(<<116>>)}
PointerChoices == {null, Some(0), Some(0 - 1), Some(300)}
\* null and "br"
ContentEncodingChoices == {null, Some(<<98, 114>>)}
\* null and a two-byte character
MetaprotocolChoices == {null, Some(<<233>>)}
DelegateChoices == {null, Some([txHash |-> <<1, 2, 3>>, index |-> 2])}

EnvelopeInscriptions ==
    { Inscription(c, ct, ce, mp, dg, ptr, 546) :
        c \in ContentChoices, ct \in ContentTypeChoices, ce \in ContentEncodingChoices,
        mp \in MetaprotocolChoices, dg \in DelegateChoices, ptr \in PointerChoices }

EnvelopeInit ==
    /\ inscriptions \in { <<ins>> : ins \in EnvelopeInscriptions }
    /\ script = <<>>
    /\ feeRate = 0
    /\ revealVSize = 0
    /\ commitTemplate = NoTemplate
    /\ revealTemplate = NoTemplate
    /\ SelIdle
    /\ AppIdle
    /\ FlowIdle
    /\ EncIdle
    /\ FetchIdle
    /\ GroupIdle

\* One call inscription.getInscriptionScript()
GetInscriptionScript ==
    /\ script = <<>>
    /\ script' = getInscriptionScript(inscriptions[1])
    /\ UNCHANGED <<inscriptions, feeRate, revealVSize, commitTemplate, revealTemplate,
                   selVars, appVars, flowVars>>
    /\ UNCHANGED <<encVars, utxosJson, groupVars>>

EnvelopeNext == GetInscriptionScript

EnvelopeSpec == EnvelopeInit /\ [][EnvelopeNext]_vars

(***************************************************************************)
(* Properties of the envelope (EnvelopeSpec)                               *)
(***************************************************************************)
Prologue == <<Op("OP_0"), Op("OP_IF"), Push(<<111, 114, 100>>)>>

NoOptionalFields(ins) ==
    /\ ins.contentType = null
    /\ ins.pointer = null
    /\ ins.contentEncoding = null
    /\ ins.metaprotocol = null
    /\ ins.delegate = null

RECURSIVE ConcatPushes(_)
\* The data of a sequence of pushes, concatenated in order.
ConcatPushes(elements) ==
    IF elements = <<>> THEN <<>> ELSE Head(elements).data \o ConcatPushes(Tail(elements))

\* ceil(n / ChunkSize)
ChunksNeeded(n) == (n + ChunkSize - 1) \div ChunkSize

\* C17: for an inscription without optional fields and with content of length
\* L > 0, the envelope is prologue, separator, exactly ceil(L/520) content
\* pushes of 1..520 bytes whose concatenation is the content, OP_ENDIF; with
\* L = 0 or no content it is prologue, OP_ENDIF.
C17_ContentChunks ==
    (script # <<>> /\ NoOptionalFields(inscriptions[1])) =>
        LET content == inscriptions[1].content
        IN  IF content = null \/ content = Some(<<>>)
            THEN script = Prologue \o <<Op("OP_ENDIF")>>
            ELSE LET pushes == SubSeq(script, 5, Len(script) - 1)
                 IN  /\ SubSeq(script, 1, 3) = Prologue
                     /\ script[4] = Op("OP_0")
                     /\ script[Len(script)] = Op("OP_ENDIF")
                     /\ Len(pushes) = ChunksNeeded(Len(content[1]))
                     /\ \A i \in 1..Len(pushes) :
                           /\ pushes[i].kind = "push"
                           /\ Len(pushes[i].data) \in 1..ChunkSize
                     /\ ConcatPushes(pushes) = content[1]

\* An envelope of two full chunks and a one-byte chunk.
C17_Witness ==
    /\ script # <<>>
    /\ NoOptionalFields(inscriptions[1])
    /\ inscriptions[1].content # null
    /\ Len(inscriptions[1].content[1]) = 2 * ChunkSize + 1
    /\ Len(script) = 8
    /\ Len(script[7].data) = 1

\* The tags of the fields that are present, in the fixed order 1, 2, 9, 7, 11.
ExpectedTags(ins) ==
    (IF ins.contentType # null THEN <<1>> ELSE <<>>)
    \o (IF ins.pointer # null THEN <<2>> ELSE <<>>)
    \o (IF ins.contentEncoding # null THEN <<9>> ELSE <<>>)
    \o (IF ins.metaprotocol # null THEN <<7>> ELSE <<>>)
    \o (IF ins.delegate # null THEN <<11>> ELSE <<>>)

\* C18: right after the prologue the envelope holds one tag/value pair per
\* present field, in the order content-type (1), pointer (2), content-encoding
\* (9), metaprotocol (7), delegate (11); no tag appears anywhere else, and the
\* pairs are followed by the content section or OP_ENDIF.
C18_TagOrder ==
    script # <<>> =>
        LET tags == ExpectedTags(inscriptions[1])
            n == Len(tags)
        IN  /\ SubSeq(script, 1, 3) = Prologue
            /\ Len(script) >= 4 + 2 * n
            /\ \A k \in 1..n :
                  /\ script[2 + 2 * k] = Num(tags[k])
                  /\ script[3 + 2 * k].kind = "push"
            /\ { i \in 1..Len(script) : script[i].kind = "num" }
                  = { 2 + 2 * k : k \in 1..n }
            /\ script[4 + 2 * n] \in {Op("OP_0"), Op("OP_ENDIF")}

\* An envelope with all five fields present and content.
C18_Witness ==
    /\ script # <<>>
    /\ ExpectedTags(inscriptions[1]) = <<1, 2, 9, 7, 11>>
    /\ script[14] = Op("OP_0")
    /\ script[6] = Num(2)
    /\ script[7] = Push(<<44, 1>>)

\* C27: for an inscription whose pointer is 0 the envelope holds the pair tag 2,
\* empty push, right after the content-type pair (if any); the envelope has no
\* tag 2 exactly when the pointer is null.
C27_ZeroPointerPresent ==
    script # <<>> =>
        LET ins == inscriptions[1]
            k == IF ins.contentType # null THEN 6 ELSE 4
        IN  /\ ins.pointer = Some(0) =>
                  /\ script[k] = Num(2)
                  /\ script[k + 1] = Push(<<>>)
            /\ (\A i \in 1..Len(script) : script[i] # Num(2)) <=> ins.pointer = null

\* An envelope for pointer 0 with a content type and content: the empty push
\* sits between the content type and the content separator.
C27_Witness ==
    /\ script # <<>>
    /\ inscriptions[1].pointer = Some(0)
    /\ inscriptions[1].contentType = Some(<<116>>)
    /\ NoOptionalFields([inscriptions[1] EXCEPT !.contentType = null, !.pointer = null])
    /\ SubSeq(script, 4, 8) =
          <<Num(1), Push(<<116>>), Num(2), Push(<<>>), Op("OP_0")>>

\* The caller contract: no negative pointer, no empty tag value.
ViolatesCallerContract(ins) ==
    \/ (ins.pointer # null /\ ins.pointer[1] < 0)
    \/ ins.contentType = Some(<<>>)

\* C19: an inscription with a negative pointer or an empty contentType is
\* rejected: no envelope is produced from it.
C19_ContractViolationRejected ==
    ViolatesCallerContract(inscriptions[1]) => script = <<>>

\* Id of the unsigned commit template (commitPsbt.__CACHE.__TX.getId()).
TemplateCommitId == "id-of-unsigned-commit"

\* Id of the signed commit: the template's id when the inputs are P2TR or P2WPKH
\* (signatures live in the witness), another id when signing fills a scriptSig
\* (wallets.js 340-343).
SignedCommitIdOf(w) ==
    IF isP2TR(w.paymentAddress) \/ isP2WPKH(w.paymentAddress)
    THEN TemplateCommitId
    ELSE "id-of-signed-commit"

(***************************************************************************)
(* ScriptSpec: getRevealScript applied once to an inscription list         *)
(***************************************************************************)
\* Postage values: below, at and above the 546 sat dust limit.
Postages == {1, 546, 1000}

\* Pointer values a caller may have set before the call.
PriorPointers == {null, Some(0), Some(7)}

ListedInscriptions ==
    { Inscription(Some(<<104, 105>>), Some(<<116>>), null, null, null, ptr, postage) :
        ptr \in PriorPointers, postage \in Postages }

InscriptionLists ==
    UNION { [1..n -> ListedInscriptions] : n \in 0..MaxInscriptions }

revealPublicKey == <<171, 205>>

ScriptInit ==
    /\ inscriptions \in InscriptionLists
    /\ script = <<>>
    /\ feeRate = 0
    /\ revealVSize = 0
    /\ commitTemplate = NoTemplate
    /\ revealTemplate = NoTemplate
    /\ SelIdle
    /\ AppIdle
    /\ FlowIdle
    /\ EncIdle
    /\ FetchIdle
    /\ GroupIdle

\* One call getRevealScript(inscriptions, revealPublicKey): the inscriptions'
\* pointers are written in place.
GetRevealScript ==
    /\ script = <<>>
    /\ inscriptions' = getRevealScript(inscriptions, revealPublicKey).inscriptions
    /\ script' = getRevealScript(inscriptions, revealPublicKey).script
    /\ UNCHANGED <<feeRate, revealVSize, commitTemplate, revealTemplate,
                   selVars, appVars, flowVars>>
    /\ UNCHANGED <<encVars, utxosJson, groupVars>>

\* Output script (and address) of the taproot output for an output key.
P2trScript(pubkey) == <<"p2tr", pubkey>>

\* The reveal PSBT wired to the all-zero id whatever commit id it is handed.
revealWiredToZeroId(list, inscriptionReceiveAddress, tweakedPubkey, commitId, revealFee) ==
    [inputs |-> << [hash |-> "0000000000000000000000000000000000000000000000000000000000000000",
                    index |-> 0,
                    witnessUtxo |-> [script |-> P2trScript(tweakedPubkey),
                                     value |-> revealFee]] >>,
     outputs |-> [i \in 1..Len(list) |->
                    [address |-> inscriptionReceiveAddress, value |-> list[i].postage]]]

\* getRevealTransactionV2, App.jsx 179-210: the reveal PSBT with its one input
\* and one output per inscription.
getRevealTransactionV2(list, inscriptionReceiveAddress, tweakedPubkey, commitId, revealFee) ==
    [inputs |-> << [hash |-> commitId, index |-> 0,
                    witnessUtxo |-> [script |-> P2trScript(tweakedPubkey),
                                     value |-> revealFee]] >>,
     outputs |-> [i \in 1..Len(list) |->
                    [address |-> inscriptionReceiveAddress, value |-> list[i].postage]]]
\* Tap.getPubKey(revealPublicKey, {target: tapLeafHash}): the output key is
\* determined by the internal key and the leaf script.
tapTweak(publicKey, leafScript) == [internalKey |-> publicKey, leaf |-> leafScript]

\* getRevealTapscriptData, App.jsx 145-150
getRevealTapscriptData(list, publicKey) ==
    [script |-> getRevealScript(list, publicKey).script,
     tweakedPubkey |-> tapTweak(publicKey, getRevealScript(list, publicKey).script)]

\* The reveal with its outputs in reverse list order.
buildRevealReversed(list, receiveAddress, commitId, revealFee) ==
    getRevealTransactionV2(Reverse(list), receiveAddress,
                           getRevealTapscriptData(list, revealPublicKey).tweakedPubkey,
                           commitId, revealFee)

\* The reveal PSBT of a flow: getRevealTransactionV2 is handed the same
\* inscriptions array that getRevealScript wrote the pointers into, and the
\* tapscript data built from it.
buildReveal(list, receiveAddress, commitId, revealFee) ==
    getRevealTransactionV2(list, receiveAddress,
                           getRevealTapscriptData(list, revealPublicKey).tweakedPubkey,
                           commitId, revealFee)

RECURSIVE TotalPostage(_)
\* inscriptions.reduce((acc, inscription) => acc + inscription.postage, 0)
TotalPostage(list) ==
    IF list = <<>> THEN 0 ELSE Head(list).postage + TotalPostage(Tail(list))

\* getRevealTransactionV2(inscriptions, wallet.ordinalsAddress, ..., commitTxId,
\* estimatedRevealFee, ...) after the script was built.
GetRevealTransaction ==
    /\ script # <<>>
    /\ revealTemplate = NoTemplate
    /\ \E commitId \in {TemplateCommitId, "id-of-signed-commit"}, fee \in {0, 150} :
         revealTemplate' = buildReveal(inscriptions, "ordinalsAddress", commitId,
                                       TotalPostage(inscriptions) + fee)
    /\ UNCHANGED <<inscriptions, script, feeRate, revealVSize, commitTemplate,
                   selVars, appVars, flowVars>>
    /\ UNCHANGED <<encVars, utxosJson, groupVars>>

ScriptNext ==
    \/ GetRevealScript
    \/ GetRevealTransaction

ScriptSpec == ScriptInit /\ [][ScriptNext]_vars

(***************************************************************************)
(* Properties of getRevealScript and the reveal outputs (ScriptSpec)       *)
(***************************************************************************)
\* Sum of the postage of the first n inscriptions.
PostageBefore(list, n) == TotalPostage(SubSeq(list, 1, n))

\* C12: a call of getRevealScript on a list of two or more inscriptions leaves
\* inscription[i].pointer, i > 0, equal to the sum of the postage of the
\* inscriptions before it, whatever it held, and leaves inscription[0].pointer
\* (and every postage) as it was.
C12_PointersAreRunningPostage ==
    [][(script = <<>> /\ script' # <<>> /\ Len(inscriptions) >= 2) =>
          /\ Len(inscriptions') = Len(inscriptions)
          /\ inscriptions'[1].pointer = inscriptions[1].pointer
          /\ \A i \in 1..Len(inscriptions) :
                inscriptions'[i].postage = inscriptions[i].postage
          /\ \A i \in 2..Len(inscriptions) :
                inscriptions'[i].pointer = Some(PostageBefore(inscriptions, i - 1))]_vars

\* After a call on three inscriptions: the first keeps the pointer 7 it had,
\* the third points past two postages.
C12_Witness ==
    /\ script # <<>>
    /\ Len(inscriptions) = 3
    /\ inscriptions[1].pointer = Some(7)
    /\ inscriptions[2].pointer = Some(inscriptions[1].postage)
    /\ inscriptions[3].pointer = Some(inscriptions[1].postage + inscriptions[2].postage)
    /\ inscriptions[1].postage # inscriptions[2].postage
RECURSIVE OutputValuesBefore(_, _)
\* Sum of the values of the first n outputs of a template.
OutputValuesBefore(template, n) ==
    IF n = 0 THEN 0 ELSE template.outputs[n].value + OutputValuesBefore(template, n - 1)

\* C13: the reveal template has one output per inscription, output i valued at
\* inscription[i].postage in list order, so every pointer getRevealScript
\* assigned (i > 0) equals the sum of the values of the reveal outputs before i.
C13_OutputsMatchPointers ==
    revealTemplate # NoTemplate =>
        /\ Len(revealTemplate.outputs) = Len(inscriptions)
        /\ \A i \in 1..Len(inscriptions) :
              revealTemplate.outputs[i].value = inscriptions[i].postage
        /\ \A i \in 2..Len(inscriptions) :
              inscriptions[i].pointer = Some(OutputValuesBefore(revealTemplate, i - 1))

\* A reveal built for three inscriptions of unequal postage.
C13_Witness ==
    /\ revealTemplate # NoTemplate
    /\ Len(revealTemplate.outputs) = 3
    /\ revealTemplate.outputs[1].value = 1
    /\ revealTemplate.outputs[2].value = 1000
    /\ inscriptions[3].pointer = Some(1001)
(***************************************************************************)
(* getCommitTransaction: App.jsx 512-608, 693-716                          *)
(* Fees that can carry half a satoshi (10.5 vB header, 66/4 vB witness) are *)
(* kept in half-satoshi units; effectiveValue is in half-satoshis too.     *)
(***************************************************************************)
MaxCommitUtxos == 2    \* longest UTXO list fetched for the payment address
DustLimit == 546       \* smallest change output added

\* 2 * (10.5 + 2 * 43): header and two taproot outputs, in half vbytes
HeaderAndOutputsHalfVBytes == 21 + 2 * 86

\* Twice the input vsize appendUtxoEffectiveValues charges per address type.
InputHalfVBytes(addressType) ==
    CASE addressType = "P2TR"        -> 2 * (40 + 1) + 33
      [] addressType = "P2WPKH"      -> 2 * (40 + 1) + 54
      [] addressType = "P2SH-P2WPKH" -> 2 * (40 + 24) + 54
      [] addressType = "P2PKH"       -> 2 * (40 + 108)

\* utxo.effectiveValue = utxo.value - feeRate * inputVSize, in half-satoshis
appendUtxoEffectiveValues(us, addressType, rate) ==
    [i \in 1..Len(us) |->
        [id |-> us[i].id, value |-> us[i].value,
         effectiveValue |-> 2 * us[i].value - rate * InputHalfVBytes(addressType)]]

\* Math.ceil(revealVSize * feeRate + total_postage): all three are integers
estimatedRevealFee(list, vsize, rate) == vsize * rate + TotalPostage(list)

\* A target that leaves out the fee for the header and the outputs.
commitTargetRevealFeeOnly(list, vsize, rate) == 2 * estimatedRevealFee(list, vsize, rate)

\* estimatedRevealFee + estimatedCommitFeeForHeaderAndOutputs, in half-satoshis
commitTarget(list, vsize, rate) ==
    2 * estimatedRevealFee(list, vsize, rate) + HeaderAndOutputsHalfVBytes * rate

RECURSIVE SumValue(_)
\* selectedUtxos.reduce((acc, utxo) => acc + utxo.value, 0)
SumValue(us) == IF us = <<>> THEN 0 ELSE Head(us).value + SumValue(Tail(us))

\* The commit fee rounded down instead of up.
estimatedCommitFeeFloored(selected, rate) ==
    (HeaderAndOutputsHalfVBytes * rate
       + (2 * SumValue(selected) - SumEffective(selected))) \div 2

\* Math.ceil(estimatedCommitFeeForHeaderAndOutputs + estimatedCommitFeeForInputs)
estimatedCommitFee(selected, rate) ==
    (HeaderAndOutputsHalfVBytes * rate
       + (2 * SumValue(selected) - SumEffective(selected)) + 1) \div 2

\* selected values minus estimatedInscriptionFee
changeOf(selected, list, vsize, rate) ==
    SumValue(selected)
      - (estimatedCommitFee(selected, rate) + estimatedRevealFee(list, vsize, rate))

\* The change output added at any positive leftover.
changeOutputAnyLeftover(selected, paymentAddress, list, vsize, rate) ==
    IF changeOf(selected, list, vsize, rate) > 0
    THEN << [address |-> paymentAddress, value |-> changeOf(selected, list, vsize, rate)] >>
    ELSE <<>>

\* if (change >= 546) psbt.addOutput({address: paymentAddress, value: change})
changeOutput(selected, paymentAddress, list, vsize, rate) ==
    IF changeOf(selected, list, vsize, rate) >= DustLimit
    THEN << [address |-> paymentAddress, value |-> changeOf(selected, list, vsize, rate)] >>
    ELSE <<>>

\* The PSBT getCommitTransaction returns: one input per selected UTXO, the
\* output to the commit address, the change output.
commitPsbt(selected, addressType, paymentAddress, commitAddress, list, vsize, rate) ==
    [inputs |-> [i \in 1..Len(selected) |->
                    [hash |-> selected[i].id, value |-> selected[i].value,
                     addressType |-> addressType]],
     outputs |-> << [address |-> commitAddress,
                     value |-> estimatedRevealFee(list, vsize, rate)] >>
                 \o changeOutput(selected, paymentAddress, list, vsize, rate)]

\* getTxData parses the /hex response with .json(): raw transaction hex is not
\* JSON, so the P2PKH input case throws at its first input.
InputLoopThrows(selected, addressType) == addressType = "P2PKH" /\ selected # <<>>
(***************************************************************************)
(* CommitSpec: getCommitTransaction applied once                           *)
(***************************************************************************)
\* Values of the UTXOs fetched for the payment address (all above the 1000 sat
\* filter): 4131 and 4132 leave 545 and 546 sats of change on a P2TR input at
\* 10 sat/vB.
UtxoValues == {1001, 4131, 4132, 100000}
FeeRates == {1, 10}
RevealVSizes == {150, 151}
PaymentAddressTypes == {"P2TR", "P2WPKH", "P2SH-P2WPKH", "P2PKH"}

FetchedUtxoLists ==
    UNION { { [i \in 1..n |-> [id |-> i, value |-> f[i]]] : f \in [1..n -> UtxoValues] } :
            n \in 0..MaxCommitUtxos }

\* The commit address: Address.p2tr.fromPubKey(tweakedRevealPublicKey, network),
\* the flows passing tapscriptData.tweakedPubkey.
commitAddress ==
    P2trScript(getRevealTapscriptData(inscriptions, revealPublicKey).tweakedPubkey)

CommitInit ==
    /\ utxos \in FetchedUtxoLists
    /\ targetAmount = 0
    /\ selection = NotSelected
    /\ wallet \in { WalletInstance("xverse", <<k, "P2TR">>) : k \in PaymentAddressTypes }
    /\ isConnected = TRUE
    /\ creationMethod = "none"
    /\ startedFlows = {}
    /\ pendingAccount = "none"
    /\ FlowIdle
    /\ inscriptions \in { l \in InscriptionLists : Len(l) <= 1 }
    /\ script = <<>>
    /\ feeRate \in FeeRates
    /\ revealVSize \in RevealVSizes
    /\ commitTemplate = NoTemplate
    /\ revealTemplate = NoTemplate
    /\ EncIdle
    /\ FetchIdle
    /\ GroupIdle

\* One call getCommitTransaction(inscriptions, wallet.paymentAddress, ...,
\* revealVSize) with the fee rate and UTXO list the fetches returned. The
\* template stays unbuilt when selectUtxos or the input loop throws.
GetCommitTransaction ==
    /\ selection = NotSelected
    /\ LET addressType == wallet.paymentAddress
           adjustedUtxos == appendUtxoEffectiveValues(utxos, addressType, feeRate)
           target == commitTarget(inscriptions, revealVSize, feeRate)
           selectedUtxos == selectUtxos(adjustedUtxos, target)
       IN  /\ utxos' = sortByEffectiveValue(adjustedUtxos)
           /\ targetAmount' = target
           /\ selection' = selectedUtxos
           /\ commitTemplate' =
                IF selectedUtxos.kind = "throw"
                     \/ InputLoopThrows(selectedUtxos.selected, addressType)
                THEN NoTemplate
                ELSE commitPsbt(selectedUtxos.selected, addressType, wallet.paymentAddress,
                                commitAddress, inscriptions, revealVSize, feeRate)
    /\ UNCHANGED <<inscriptions, script, feeRate, revealVSize, revealTemplate,
                   appVars, flowVars>>
    /\ UNCHANGED <<encVars, utxosJson, groupVars>>

\* getRevealTransactionV2 as the flows call it after getCommitTransaction
\* returned [commitPsbt, estimatedRevealFee]: with the id of the commit (of the
\* template or of the signed transaction) and the returned fee.
GetRevealTransactionAfterCommit ==
    /\ commitTemplate # NoTemplate
    /\ revealTemplate = NoTemplate
    /\ \E commitId \in {TemplateCommitId, SignedCommitIdOf(wallet)} :
         revealTemplate' = buildReveal(inscriptions, "ordinalsAddress", commitId,
                                       commitTemplate.outputs[1].value)
    /\ UNCHANGED <<inscriptions, script, feeRate, revealVSize, commitTemplate,
                   selVars, appVars, flowVars>>
    /\ UNCHANGED <<encVars, utxosJson, groupVars>>

CommitNext ==
    \/ GetCommitTransaction
    \/ GetRevealTransactionAfterCommit

CommitSpec == CommitInit /\ [][CommitNext]_vars

(***************************************************************************)
(* Properties of the commit template (CommitSpec)                          *)
(***************************************************************************)
\* sum(selected values) - estimatedCommitFee - estimatedRevealFee, from the
\* fee rate, the input count and the address type.
Leftover ==
    SumValue(selection.selected)
      - ((HeaderAndOutputsHalfVBytes * feeRate
            + Len(selection.selected) * feeRate * InputHalfVBytes(wallet.paymentAddress)
            + 1) \div 2)
      - (revealVSize * feeRate + TotalPostage(inscriptions))

\* C15: the commit template has one input per selected UTXO in selection
\* order, output 0 pays the commit address the estimated reveal fee, there is a
\* second output, paying the leftover to the payment address, exactly when the
\* leftover is at least 546, and there are never more than two outputs.
C15_CommitTemplateShape ==
    commitTemplate # NoTemplate =>
        /\ Len(commitTemplate.inputs) = Len(selection.selected)
        /\ \A i \in 1..Len(selection.selected) :
              /\ commitTemplate.inputs[i].hash = selection.selected[i].id
              /\ commitTemplate.inputs[i].value = selection.selected[i].value
        /\ commitTemplate.outputs[1] =
              [address |-> commitAddress,
               value |-> revealVSize * feeRate + TotalPostage(inscriptions)]
        /\ Len(commitTemplate.outputs) \in {1, 2}
        /\ Len(commitTemplate.outputs) = 2 <=> Leftover >= 546
        /\ Len(commitTemplate.outputs) = 2 =>
              commitTemplate.outputs[2] =
                  [address |-> wallet.paymentAddress, value |-> Leftover]

\* A template over two selected UTXOs whose leftover is one satoshi short of
\* the dust limit: no change output.
C15_Witness ==
    /\ commitTemplate # NoTemplate
    /\ Len(commitTemplate.inputs) = 2
    /\ Leftover \in 1..545
    /\ Len(commitTemplate.outputs) = 1
\* The inputs of the scenario: one inscription of postage 546, 10 sat/vB, one
\* fetched UTXO of 100,000 sats, and getCommitTransaction has run.
SingleInscriptionScenario ==
    /\ selection # NotSelected
    /\ Len(inscriptions) = 1
    /\ inscriptions[1].postage = 546
    /\ feeRate = 10
    /\ Len(utxos) = 1
    /\ utxos[1].value = 100000

\* C16: in the scenario selection returns exactly the one UTXO, the commit
\* transaction has exactly two outputs (commit address and change), and the
\* reveal transaction, once built, has exactly one output valued 546.
C16_SingleInscriptionScenario ==
    SingleInscriptionScenario =>
        /\ Returned
        /\ selection.selected = utxos
        /\ Len(commitTemplate.outputs) = 2
        /\ revealTemplate # NoTemplate =>
              (Len(revealTemplate.outputs) = 1 /\ revealTemplate.outputs[1].value = 546)

(***************************************************************************)
(* FlowSpec: the three flow functions (App.jsx 324-440), statement by      *)
(* statement, with getCommitTransaction (App.jsx 512-608) inlined          *)
(***************************************************************************)
Flows == {"ephemeral", "one_sign", "two_sign"}

\* getCommitTransaction in statement order.
getCommitTransaction ==
    <<"getAddressType", "getRecommendedFees", "getConfirmedCardinalUtxos",
      "selectUtxos", "addInputs", "addOutputs">>

\* The ephemeral flow with the commit pushed as soon as it is signed.
createInscriptionsEphemeralEarlyBroadcast ==
    <<"generateKeyPair", "getRevealTapscriptData", "getRevealVSize">>
    \o getCommitTransaction
    \o <<"signPsbtCommit", "extractCommit", "broadcastCommit", "revealFromSigned",
         "extractReveal", "broadcastReveal">>

\* The ephemeral flow pushing the reveal ahead of the commit.
createInscriptionsEphemeralRevealFirst ==
    <<"generateKeyPair", "getRevealTapscriptData", "getRevealVSize">>
    \o getCommitTransaction
    \o <<"signPsbtCommit", "extractCommit", "revealFromSigned", "extractReveal",
         "broadcastReveal", "broadcastCommit">>

\* The ephemeral flow asking the wallet to sign before the commit is built.
createInscriptionsEphemeralSignFirst ==
    <<"generateKeyPair", "getRevealTapscriptData", "getRevealVSize", "signPsbtCommit">>
    \o getCommitTransaction
    \o <<"extractCommit", "revealFromSigned", "extractReveal",
         "broadcastCommit", "broadcastReveal">>

\* createInscriptionsWithEphemeralKey, App.jsx 418-440
createInscriptionsWithEphemeralKey ==
    <<"generateKeyPair", "getRevealTapscriptData", "getRevealVSize">>
    \o getCommitTransaction
    \o <<"signPsbtCommit", "extractCommit", "revealFromSigned", "extractReveal",
         "broadcastCommit", "broadcastReveal">>

\* createInscriptionsWithTweakedKey, App.jsx 324-363
createInscriptionsWithTweakedKey ==
    <<"getTweakedTaproot", "getRevealTapscriptData", "getRevealVSize">>
    \o getCommitTransaction
    \o <<"revealFromTemplate", "signPsbts", "extractCommit", "extractReveal",
         "broadcastCommit", "broadcastReveal">>

\* createInscriptionsWithTweakedKeyTwoSign, App.jsx 365-396
createInscriptionsWithTweakedKeyTwoSign ==
    <<"getTweakedTaproot", "getRevealTapscriptData", "getRevealVSize">>
    \o getCommitTransaction
    \o <<"signPsbtCommit", "extractCommit", "revealFromSigned", "signPsbtReveal",
         "extractReveal", "broadcastCommit", "broadcastReveal">>

Program(f) ==
    CASE f = "ephemeral" -> createInscriptionsWithEphemeralKey
      [] f = "one_sign"  -> createInscriptionsWithTweakedKey
      [] f = "two_sign"  -> createInscriptionsWithTweakedKeyTwoSign
      [] OTHER -> <<>>

Running == flow \in Flows /\ failedAt = "" /\ pc \in 1..Len(Program(flow))
Finished == flow \in Flows /\ failedAt = "" /\ pc = Len(Program(flow)) + 1
Stmt == Program(flow)[pc]
\* The flow is at statement name, not suspended inside it.
At(name) == Running /\ awaiting = "" /\ Stmt = name
Suspended(kind) == Running /\ awaiting = kind

HasTaproot(w) == isP2TR(w.paymentAddress) \/ isP2TR(w.ordinalsAddress)

\* Methods of class Wallet (wallets.js 210-375); the adapters override some of
\* them and add none that the flows call.
WalletMethods ==
    {"windowCheck", "connect", "getNetwork", "switchNetwork", "signPsbt", "signPsbts",
     "setupAccountChangeListener", "removeAccountChangeListener", "getAccountInfo",
     "handleDisconnect", "getInputAddress", "getInputsToSignGroupedNameless",
     "getInputsToSignGrouped", "hasSignableTweakedTaproot",
     "getInscriptionCreationMethod", "getTaproot"}

\* wallet.name(...) is callable: the object is a class instance (not a spread
\* copy) and the class defines the method.
HasMethod(w, name) == w.hasMethods /\ name \in WalletMethods

\* Wallet.signPsbts (wallets.js 245-254) signs one PSBT at a time; Unisat, Xverse
\* and OKX override it with one request carrying all PSBTs.
InitialSignMode(w) ==
    IF w.walletType \in {"unisat", "xverse", "okx"} THEN "batch" ELSE "sequential"

\* UTXO lists the payment address can hold when a flow fetches them: none, one
\* too small for any inscription, one ample.
FlowCandidateLists ==
    { <<>> } \cup { << [id |-> 1, value |-> v] >> : v \in {1001, 100000} }

\* The inscription createInscriptions builds (App.jsx 278-283): the text
\* "Chancellor on the brink of second bailout for banks" as text/plain.
ChancellorInscription ==
    Inscription(
      Some(<<67, 104, 97, 110, 99, 101, 108, 108, 111, 114, 32, 111, 110, 32, 116,
      104, 101, 32, 98, 114, 105, 110, 107, 32, 111, 102, 32, 115, 101, 99,
      111, 110, 100, 32, 98, 97, 105, 108, 111, 117, 116, 32, 102, 111, 114,
      32, 98, 97, 110, 107, 115>>),
      Some(<<116, 101, 120, 116, 47, 112, 108, 97, 105, 110>>),
      null, null, null, null, 546)

\* Inscription lists handed to a flow function: the one of createInscriptions,
\* and a list of two.
FlowInscriptionLists ==
    { <<ChancellorInscription>>, <<ChancellorInscription, ChancellorInscription>> }

\* Key pair getRevealVSize generates for its dry run.
dummyPublicKey == <<239, 1>>

\* "0".repeat(64), the commit id of the dry run (App.jsx 216)
ZeroTxId == "0000000000000000000000000000000000000000000000000000000000000000"

FlowInit ==
    /\ utxos \in FlowCandidateLists
    /\ targetAmount = 0
    /\ selection = NotSelected
    /\ wallet \in ConnectedWallets
    /\ isConnected = TRUE
    /\ creationMethod = "none"
    /\ startedFlows = {}
    /\ pendingAccount = "none"
    /\ flow \in Flows
    /\ pc = 1
    /\ awaiting = ""
    /\ signMode = InitialSignMode(wallet)
    /\ signed = {}
    /\ signRequests = <<>>
    /\ broadcasts = <<>>
    /\ failedAt = ""
    /\ commitTxId = "none"
    /\ signedCommitId = "none"
    /\ inscriptions \in FlowInscriptionLists
    /\ script = <<>>
    /\ feeRate = 0
    /\ revealVSize = 0
    /\ commitTemplate = NoTemplate
    /\ revealTemplate = NoTemplate
    /\ EncIdle
    /\ FetchIdle
    /\ GroupIdle

Advance == pc' = pc + 1 /\ UNCHANGED failedAt
Throw == failedAt' = Stmt /\ UNCHANGED pc

\* generateKeyPair(NETWORKS[network].bitcoinjs): a local computation.
LocalStatement ==
    /\ At("generateKeyPair")
    /\ Advance
    /\ UNCHANGED <<selVars, appVars, flow, awaiting, signMode, signed, signRequests,
                   broadcasts, commitTxId, signedCommitId>>
    /\ UNCHANGED txVars
    /\ UNCHANGED <<encVars, utxosJson, groupVars>>

\* let tapscriptData = getRevealTapscriptData(inscriptions, publicKey): runs
\* getRevealScript, which writes the pointers.
GetRevealTapscriptData ==
    /\ At("getRevealTapscriptData")
    /\ inscriptions' = getRevealScript(inscriptions, revealPublicKey).inscriptions
    /\ script' = getRevealTapscriptData(inscriptions, revealPublicKey).script
    /\ Advance
    /\ UNCHANGED <<selVars, appVars, flow, awaiting, signMode, signed, signRequests,
                   broadcasts, commitTxId, signedCommitId>>
    /\ UNCHANGED <<feeRate, revealVSize, commitTemplate, revealTemplate>>
    /\ UNCHANGED <<encVars, utxosJson, groupVars>>

\* let tweakedWalletTaproot = wallet.getTweakedTaproot(wallet, network)
\* (App.jsx 326, 367): calling a method the object does not have throws a
\* TypeError; a taproot-less result throws on .pubkey.
GetTweakedTaproot ==
    /\ At("getTweakedTaproot")
    /\ IF HasMethod(wallet, "getTweakedTaproot") /\ HasTaproot(wallet)
       THEN Advance ELSE Throw
    /\ UNCHANGED <<selVars, appVars, flow, awaiting, signMode, signed, signRequests,
                   broadcasts, commitTxId, signedCommitId>>
    /\ UNCHANGED txVars
    /\ UNCHANGED <<encVars, utxosJson, groupVars>>

\* getRevealVSize (App.jsx 212-219): builds and signs a dry-run reveal with a
\* fresh key pair, the all-zero commit id and the total postage as its value,
\* and reports its virtual size; building, signing and extraction can throw.
GetRevealVSize ==
    /\ At("getRevealVSize")
    /\ \/ /\ revealTemplate' =
                getRevealTransactionV2(inscriptions, wallet.ordinalsAddress,
                    getRevealTapscriptData(inscriptions, dummyPublicKey).tweakedPubkey,
                    ZeroTxId, TotalPostage(inscriptions))
          /\ revealVSize' \in RevealVSizes
          /\ Advance
       \/ (Throw /\ UNCHANGED <<revealTemplate, revealVSize>>)
    /\ inscriptions' = getRevealScript(inscriptions, dummyPublicKey).inscriptions
    /\ UNCHANGED <<selVars, appVars, flow, awaiting, signMode, signed, signRequests,
                   broadcasts, commitTxId, signedCommitId>>
    /\ UNCHANGED <<script, feeRate, commitTemplate>>
    /\ UNCHANGED <<encVars, utxosJson, groupVars>>

\* getAddressType (App.jsx 786-825): throws "Unsupported address type" for a
\* script that is none of the four kinds.
GetAddressType ==
    /\ At("getAddressType")
    /\ IF wallet.paymentAddress \in {"P2TR", "P2WPKH", "P2SH-P2WPKH", "P2PKH"}
       THEN Advance ELSE Throw
    /\ UNCHANGED <<selVars, appVars, flow, awaiting, signMode, signed, signRequests,
                   broadcasts, commitTxId, signedCommitId>>
    /\ UNCHANGED txVars
    /\ UNCHANGED <<encVars, utxosJson, groupVars>>

\* await getRecommendedFees(), await getConfirmedCardinalUtxos(paymentAddress):
\* the fetch resolves (with a fee rate, with the UTXO list) or rejects.
FetchStatement ==
    /\ \/ /\ At("getRecommendedFees")
          /\ \/ (feeRate' \in FeeRates /\ Advance)
             \/ (Throw /\ UNCHANGED feeRate)
       \/ /\ At("getConfirmedCardinalUtxos")
          /\ (Advance \/ Throw)
          /\ UNCHANGED feeRate
    /\ UNCHANGED <<selVars, appVars, flow, awaiting, signMode, signed, signRequests,
                   broadcasts, commitTxId, signedCommitId>>
    /\ UNCHANGED <<inscriptions, script, revealVSize, commitTemplate, revealTemplate>>
    /\ UNCHANGED <<encVars, utxosJson, groupVars>>

\* let adjustedUtxos = appendUtxoEffectiveValues(utxos, paymentAddressType, feeRate);
\* let selectedUtxos = selectUtxos(adjustedUtxos, estimatedRevealFee +
\* estimatedCommitFeeForHeaderAndOutputs) (App.jsx 525-526)
SelectUtxosStatement ==
    /\ At("selectUtxos")
    /\ LET adjustedUtxos ==
               appendUtxoEffectiveValues(utxos, wallet.paymentAddress, feeRate)
           target == commitTarget(inscriptions, revealVSize, feeRate)
       IN  /\ targetAmount' = target
           /\ selection' = selectUtxos(adjustedUtxos, target)
           /\ utxos' = sortByEffectiveValue(adjustedUtxos)
           /\ IF selectUtxos(adjustedUtxos, target).kind = "throw" THEN Throw ELSE Advance
    /\ UNCHANGED <<appVars, flow, awaiting, signMode, signed, signRequests,
                   broadcasts, commitTxId, signedCommitId>>
    /\ UNCHANGED txVars
    /\ UNCHANGED <<encVars, utxosJson, groupVars>>

\* The PSBT of the flow's getCommitTransaction call.
FlowCommitPsbt ==
    commitPsbt(selection.selected, wallet.paymentAddress, wallet.paymentAddress,
               commitAddress, inscriptions, revealVSize, feeRate)

\* The input loop (App.jsx 539-590): one addInput per selected UTXO; the P2PKH
\* case throws in getTxData.
AddInputs ==
    /\ At("addInputs")
    /\ IF InputLoopThrows(selection.selected, wallet.paymentAddress)
       THEN Throw /\ UNCHANGED commitTemplate
       ELSE /\ commitTemplate' = [inputs |-> FlowCommitPsbt.inputs, outputs |-> <<>>]
            /\ Advance
    /\ UNCHANGED <<selVars, appVars, flow, awaiting, signMode, signed, signRequests,
                   broadcasts, commitTxId, signedCommitId>>
    /\ UNCHANGED <<inscriptions, script, feeRate, revealVSize, revealTemplate>>
    /\ UNCHANGED <<encVars, utxosJson, groupVars>>

\* psbt.addOutput to the commit address, and the change output (App.jsx 592-604)
AddOutputs ==
    /\ At("addOutputs")
    /\ commitTemplate' = FlowCommitPsbt
    /\ Advance
    /\ UNCHANGED <<selVars, appVars, flow, awaiting, signMode, signed, signRequests,
                   broadcasts, commitTxId, signedCommitId>>
    /\ UNCHANGED <<inscriptions, script, feeRate, revealVSize, revealTemplate>>
    /\ UNCHANGED <<encVars, utxosJson, groupVars>>

\* getRevealTransactionV2 (App.jsx 179-210) with the commit id the flow passes:
\* tempCommitTx.getId() of the unsigned template (App.jsx 337, 346) or
\* commitTx.getId() of the signed commit (App.jsx 388, 430-433). The ephemeral
\* flow's call also signs and finalizes the reveal. addOutputs throws on an
\* address that is null.
BuildReveal ==
    /\ (At("revealFromTemplate") \/ At("revealFromSigned"))
    /\ \/ /\ wallet.ordinalsAddress # "none"
          /\ commitTxId' = IF Stmt = "revealFromTemplate"
                           THEN TemplateCommitId ELSE signedCommitId
          /\ revealTemplate' = buildReveal(inscriptions, wallet.ordinalsAddress,
                                           commitTxId', commitTemplate.outputs[1].value)
          /\ Advance
       \/ (Throw /\ UNCHANGED <<commitTxId, revealTemplate>>)
    /\ UNCHANGED <<selVars, appVars, flow, awaiting, signMode, signed, signRequests,
                   broadcasts, signedCommitId>>
    /\ UNCHANGED <<inscriptions, script, feeRate, revealVSize, commitTemplate>>
    /\ UNCHANGED <<encVars, utxosJson, groupVars>>

\* The provider request the statement issues next: wallet.signPsbt sends the one
\* PSBT; wallet.signPsbts sends both in one request, or (base class loop,
\* Xverse fallback) a signPsbt request for the next unsigned PSBT.
NextSignRequest ==
    CASE Stmt = "signPsbtCommit" -> [api |-> "signPsbt", psbts |-> <<"commit">>]
      [] Stmt = "signPsbtReveal" -> [api |-> "signPsbt", psbts |-> <<"reveal">>]
      [] Stmt = "signPsbts" /\ signMode = "batch" ->
            [api |-> "signPsbts", psbts |-> <<"commit", "reveal">>]
      [] OTHER ->
            [api |-> "signPsbt",
             psbts |-> IF "commit" \in signed THEN <<"reveal">> ELSE <<"commit">>]

\* await wallet.signPsbt(...) / await wallet.signPsbts(...) up to the provider
\* request; windowCheck() throws when the provider is gone.
RequestSignature ==
    /\ (At("signPsbtCommit") \/ At("signPsbtReveal") \/ At("signPsbts"))
    /\ \/ /\ HasMethod(wallet, "signPsbt")
          /\ signRequests' = Append(signRequests, NextSignRequest)
          /\ awaiting' = "wallet"
          /\ UNCHANGED <<pc, failedAt>>
       \/ (Throw /\ UNCHANGED <<signRequests, awaiting>>)
    /\ UNCHANGED <<selVars, appVars, flow, signMode, signed, broadcasts,
                   commitTxId, signedCommitId>>
    /\ UNCHANGED txVars
    /\ UNCHANGED <<encVars, utxosJson, groupVars>>

LastRequest == signRequests[Len(signRequests)]
Range(seq) == { seq[i] : i \in 1..Len(seq) }

\* The provider answers with signed PSBTs; signPsbts returns once both are signed.
WalletResolves ==
    /\ Suspended("wallet")
    /\ signed' = signed \cup Range(LastRequest.psbts)
    /\ awaiting' = ""
    /\ IF Stmt = "signPsbts" /\ signed' # {"commit", "reveal"}
       THEN UNCHANGED <<pc, failedAt>>
       ELSE Advance
    /\ UNCHANGED <<selVars, appVars, flow, signMode, signRequests, broadcasts,
                   commitTxId, signedCommitId>>
    /\ UNCHANGED txVars
    /\ UNCHANGED <<encVars, utxosJson, groupVars>>

\* The provider rejects (user cancels, response.error, finalizeAllInputs throws).
\* XverseWallet.signPsbts (wallets.js 558-567) falls back to one signPsbt call
\* per PSBT when the batch request's error says "is not supported".
WalletRejects ==
    /\ Suspended("wallet")
    /\ awaiting' = ""
    /\ \/ (Throw /\ UNCHANGED signMode)
       \/ /\ Stmt = "signPsbts"
          /\ signMode = "batch"
          /\ wallet.walletType = "xverse"
          /\ signMode' = "sequential"
          /\ UNCHANGED <<pc, failedAt>>
    /\ UNCHANGED <<selVars, appVars, flow, signed, signRequests, broadcasts,
                   commitTxId, signedCommitId>>
    /\ UNCHANGED txVars
    /\ UNCHANGED <<encVars, utxosJson, groupVars>>

\* signedCommitPsbt.extractTransaction() and getId(); throws when an input is
\* not finalized.
ExtractCommit ==
    /\ At("extractCommit")
    /\ \/ (signedCommitId' = SignedCommitIdOf(wallet) /\ Advance)
       \/ (Throw /\ UNCHANGED signedCommitId)
    /\ UNCHANGED <<selVars, appVars, flow, awaiting, signMode, signed, signRequests,
                   broadcasts, commitTxId>>
    /\ UNCHANGED txVars
    /\ UNCHANGED <<encVars, utxosJson, groupVars>>

\* signedRevealPsbt.extractTransaction()
ExtractReveal ==
    /\ At("extractReveal")
    /\ (Advance \/ Throw)
    /\ UNCHANGED <<selVars, appVars, flow, awaiting, signMode, signed, signRequests,
                   broadcasts, commitTxId, signedCommitId>>
    /\ UNCHANGED txVars
    /\ UNCHANGED <<encVars, utxosJson, groupVars>>

\* await broadcastTx(...) up to the POST request (App.jsx 610-619)
BroadcastTx ==
    /\ \/ (At("broadcastCommit") /\ broadcasts' = Append(broadcasts, "commit"))
       \/ (At("broadcastReveal") /\ broadcasts' = Append(broadcasts, "reveal"))
    /\ awaiting' = "network"
    /\ UNCHANGED <<selVars, appVars, flow, pc, signMode, signed, signRequests, failedAt,
                   commitTxId, signedCommitId>>
    /\ UNCHANGED txVars
    /\ UNCHANGED <<encVars, utxosJson, groupVars>>

\* response.ok: broadcastTx returns the id
BroadcastAccepted ==
    /\ Suspended("network")
    /\ awaiting' = ""
    /\ Advance
    /\ UNCHANGED <<selVars, appVars, flow, signMode, signed, signRequests, broadcasts,
                   commitTxId, signedCommitId>>
    /\ UNCHANGED txVars
    /\ UNCHANGED <<encVars, utxosJson, groupVars>>

\* !response.ok or fetch rejects: broadcastTx throws (App.jsx 621-624)
BroadcastRefused ==
    /\ Suspended("network")
    /\ awaiting' = ""
    /\ Throw
    /\ UNCHANGED <<selVars, appVars, flow, signMode, signed, signRequests, broadcasts,
                   commitTxId, signedCommitId>>
    /\ UNCHANGED txVars
    /\ UNCHANGED <<encVars, utxosJson, groupVars>>

FlowNext ==
    \/ LocalStatement
    \/ GetRevealTapscriptData
    \/ GetTweakedTaproot
    \/ GetRevealVSize
    \/ GetAddressType
    \/ FetchStatement
    \/ SelectUtxosStatement
    \/ AddInputs
    \/ AddOutputs
    \/ BuildReveal
    \/ RequestSignature
    \/ WalletResolves
    \/ WalletRejects
    \/ ExtractCommit
    \/ ExtractReveal
    \/ BroadcastTx
    \/ BroadcastAccepted
    \/ BroadcastRefused

FlowSpec == FlowInit /\ [][FlowNext]_vars

(***************************************************************************)
(* Flow selection and dispatch (checked under Spec)                        *)
(***************************************************************************)
\* createInscriptions ran to its end on a wallet that has its methods.
Dispatched == creationMethod \notin {"none", "TypeError"}

\* C6: when neither the payment nor the ordinals address of the wallet is
\* taproot, createInscriptions starts the Ephemeral flow (and only it).
C6_EphemeralRuns ==
    (Dispatched /\ ~HasTaproot(wallet)) => startedFlows = {"ephemeral"}

\* C7: when the wallet's capability is {custom address signing, key path
\* signing} and its payment address is taproot, createInscriptions starts the
\* One-sign flow (and only it).
C7_OneSignRuns ==
    (/\ Dispatched
     /\ wallet.supportsCustomAddressSigning
     /\ wallet.supportsKeyPathSigning
     /\ isP2TR(wallet.paymentAddress))
    => startedFlows = {"one_sign"}

\* C8: when the wallet supports custom address signing but not key path
\* signing, flow selection yields Two-sign and createInscriptions starts the
\* Two-sign flow (and only it).
C8_TwoSignRuns ==
    (/\ Dispatched
     /\ wallet.supportsCustomAddressSigning
     /\ ~wallet.supportsKeyPathSigning)
    => (creationMethod = "wallet_two_sign" /\ startedFlows = {"two_sign"})

\* C9: whatever the capability flags and address types, flow selection yields
\* one of ephemeral / one-sign / two-sign and createInscriptions starts exactly
\* one flow.
C9_ExactlyOneFlow ==
    Dispatched =>
        /\ creationMethod \in {"ephemeral", "wallet_one_sign", "wallet_two_sign"}
        /\ Cardinality(startedFlows) = 1

(***************************************************************************)
(* Failure before broadcasting (checked under FlowSpec)                    *)
(***************************************************************************)
BroadcastStatements == {"broadcastCommit", "broadcastReveal"}

\* C10: once a flow has failed at a statement other than a broadcast, no
\* broadcast request has been issued for either transaction (and the stopped
\* flow issues none afterwards).
C10_NoBroadcastAfterEarlyFailure ==
    (failedAt # "" /\ failedAt \notin BroadcastStatements) => broadcasts = <<>>

\* A flow whose wallet rejected the commit signing request, after coin
\* selection returned.
C10_Witness ==
    /\ flow = "ephemeral"
    /\ failedAt = "signPsbtCommit"
    /\ Len(signRequests) = 1
    /\ selection.kind # "throw"
    /\ selection # NotSelected
    /\ broadcasts = <<>>

(***************************************************************************)
(* Partial broadcast (checked under FlowSpec)                              *)
(***************************************************************************)
\* The flow has passed statement name: broadcastTx returned for it.
Passed(name) ==
    \E i \in 1..Len(Program(flow)) : Program(flow)[i] = name /\ pc > i

\* The flow ended with the commit accepted by the network and the reveal not.
PartialBroadcast ==
    /\ flow \in Flows
    /\ failedAt # ""
    /\ Passed("broadcastCommit")
    /\ ~Passed("broadcastReveal")

\* C11: in the Ephemeral and One-sign flows no execution ends with the commit
\* broadcast and the reveal not broadcast.
C11_PartialOnlyInTwoSign ==
    flow \in {"ephemeral", "one_sign"} => ~PartialBroadcast

(***************************************************************************)
(* Wiring of the reveal input (checked under FlowSpec)                     *)
(***************************************************************************)
\* The flow has built its reveal with getRevealTransactionV2 (not the dry run).
RevealBuilt ==
    flow \in Flows /\ (Passed("revealFromSigned") \/ Passed("revealFromTemplate"))

\* C14: the reveal a flow builds for signing has one input; its txid is the id
\* of the commit built in the same flow (never the all-zero placeholder of the
\* dry run), its output index is 0, and its declared prevout value and script
\* are those of the commit's output 0 (estimated reveal fee, commit address).
C14_RevealSpendsCommitOutput ==
    RevealBuilt =>
        /\ Len(revealTemplate.inputs) = 1
        /\ revealTemplate.inputs[1].hash =
              (IF flow = "one_sign" THEN TemplateCommitId ELSE signedCommitId)
        /\ revealTemplate.inputs[1].hash \notin {ZeroTxId, "none"}
        /\ revealTemplate.inputs[1].index = 0
        /\ revealTemplate.inputs[1].witnessUtxo.value = commitTemplate.outputs[1].value
        /\ revealTemplate.inputs[1].witnessUtxo.value =
              estimatedRevealFee(inscriptions, revealVSize, feeRate)
        /\ revealTemplate.inputs[1].witnessUtxo.script = commitTemplate.outputs[1].address

\* An ephemeral flow run to its end on a nested-segwit payment address (the
\* signed commit's id differs from the template's), commit with change.
C14_Witness ==
    /\ Finished
    /\ flow = "ephemeral"
    /\ RevealBuilt
    /\ revealTemplate.inputs[1].hash = "id-of-signed-commit"
    /\ Len(commitTemplate.outputs) = 2
    /\ Len(revealTemplate.outputs) = 2

(***************************************************************************)
(* Postage below the dust limit (checked under ScriptSpec)                 *)
(***************************************************************************)
\* C20: from a list holding an inscription whose postage is below the dust
\* limit no reveal script and no reveal transaction is produced.
C20_DustPostageRejected ==
    (\E i \in 1..Len(inscriptions) : inscriptions[i].postage < DustLimit)
        => (script = <<>> /\ revealTemplate = NoTemplate)

(***************************************************************************)
(* What leaves the engine (checked under FlowSpec)                         *)
(***************************************************************************)
\* What generateKeyPair returns (App.jsx 47-50).
KeyPairMaterials == {"revealPublicKey", "ephemeralPrivateKey"}

\* A PSBT that is handed the whole key pair object and keeps it.
PsbtMaterialsKeepingKeyPair(name, f) ==
    IF name = "commit"
    THEN {"utxos", "paymentAddress", "paymentPublicKey", "commitAddress"}
    ELSE {"commitTxId", "commitAddress", "tapscript", "controlBlock",
          "ordinalsAddress"} \cup KeyPairMaterials

\* What the code puts into a PSBT. The commit is built from the selected UTXOs,
\* the payment address and key and the commit address (App.jsx 536-606). The
\* reveal is built from the commit id, the commit address, the tapscript and
\* control block, the ordinals address and revealKeyPair.publicKey (App.jsx
\* 185-203); psbt.signInput(0, revealKeyPair) adds a signature in the ephemeral
\* flow (App.jsx 205-208).
PsbtMaterials(name, f) ==
    IF name = "commit"
    THEN {"utxos", "paymentAddress", "paymentPublicKey", "commitAddress"}
    ELSE {"commitTxId", "commitAddress", "tapscript", "controlBlock",
          "ordinalsAddress", "revealPublicKey"}
         \cup (IF f = "ephemeral" THEN {"ephemeralSignature"} ELSE {})

\* Everything carried by the signing requests sent to the wallet provider.
SentToWallet ==
    UNION { UNION { PsbtMaterials(name, flow) : name \in Range(signRequests[i].psbts) } :
            i \in 1..Len(signRequests) }

\* Everything carried by the transaction hex posted to the broadcaster, and by
\* the address in the UTXO query (App.jsx 660).
SentToNetwork ==
    UNION { PsbtMaterials(broadcasts[i], flow) \cup {"walletSignatures"} :
            i \in 1..Len(broadcasts) }
    \cup (IF flow \in Flows /\ Passed("getConfirmedCardinalUtxos")
          THEN {"paymentAddress"} ELSE {})

psbtArray == <<"commit", "reveal">>

\* A loop whose signPsbt calls are started without awaiting the earlier ones.
loopReachesUnawaited(i, pushed) == i > pushed

\* for (let i = 0; ...) { let signedPsbt = await this.signPsbt(psbtArray[i], ...);
\* signedPsbts.push(signedPsbt); } (wallets.js 248-251, 561-564): iteration i
\* (counted from 1) starts once i - 1 results have been pushed.
loopReaches(i, pushed) == i = pushed + 1

\* Requests the provider has not answered. A rejection ends the call (throw),
\* or, for the Xverse batch request, switches to the loop.
Answered(i) ==
    \/ Range(signRequests[i].psbts) \subseteq signed
    \/ failedAt # ""
    \/ signRequests[i].api = "signPsbts" /\ signMode = "sequential"
Outstanding == { i \in 1..Len(signRequests) : ~Answered(i) }

SignInit ==
    /\ SelIdle
    /\ TxIdle
    /\ wallet \in ConnectedWallets
    /\ isConnected = TRUE
    /\ creationMethod = "none"
    /\ startedFlows = {}
    /\ pendingAccount = "none"
    /\ flow = "none"
    /\ pc = 1
    /\ awaiting = ""
    /\ signMode = InitialSignMode(wallet)
    /\ signed = {}
    /\ signRequests = <<>>
    /\ broadcasts = <<>>
    /\ failedAt = ""
    /\ commitTxId = "none"
    /\ signedCommitId = "none"
    /\ EncIdle
    /\ FetchIdle
    /\ GroupIdle

\* UnisatWallet, XverseWallet, OkxWallet.signPsbts (wallets.js 436-447, 537-556,
\* 698-708): windowCheck, then one provider request carrying every PSBT.
SignPsbtsBatch ==
    /\ signMode = "batch"
    /\ signRequests = <<>>
    /\ failedAt = ""
    /\ \/ /\ signRequests' = <<[api |-> "signPsbts", psbts |-> psbtArray]>>
          /\ awaiting' = "wallet"
          /\ UNCHANGED failedAt
       \/ /\ failedAt' = "windowCheck"
          /\ UNCHANGED <<signRequests, awaiting>>
    /\ UNCHANGED <<selVars, appVars, txVars, flow, pc, signMode, signed, broadcasts,
                   commitTxId, signedCommitId>>
    /\ UNCHANGED <<encVars, utxosJson, groupVars>>

\* One iteration of the loop of Wallet.signPsbts (wallets.js 248-251) or of the
\* Xverse fallback (wallets.js 561-564), up to the provider request of signPsbt.
SignPsbtsLoop ==
    /\ signMode = "sequential"
    /\ failedAt = ""
    /\ pc \in 1..Len(psbtArray)
    /\ loopReaches(pc, Cardinality(signed))
    /\ \/ /\ signRequests' =
                Append(signRequests, [api |-> "signPsbt", psbts |-> <<psbtArray[pc]>>])
          /\ awaiting' = "wallet"
          /\ pc' = pc + 1
          /\ UNCHANGED failedAt
       \/ /\ failedAt' = "windowCheck"
          /\ UNCHANGED <<signRequests, awaiting, pc>>
    /\ UNCHANGED <<selVars, appVars, txVars, flow, signMode, signed, broadcasts,
                   commitTxId, signedCommitId>>
    /\ UNCHANGED <<encVars, utxosJson, groupVars>>

\* The provider answers a request with the signed PSBTs.
ProviderResolves ==
    /\ failedAt = ""
    /\ \E i \in Outstanding :
          /\ signed' = signed \cup Range(signRequests[i].psbts)
          /\ awaiting' = IF Outstanding = {i} THEN "" ELSE "wallet"
    /\ UNCHANGED <<selVars, appVars, txVars, flow, pc, signMode, signRequests,
                   broadcasts, failedAt, commitTxId, signedCommitId>>
    /\ UNCHANGED <<encVars, utxosJson, groupVars>>

\* The provider answers with an error: the call throws, except that
\* XverseWallet.signPsbts starts the loop when the message says "is not
\* supported" (wallets.js 558-568).
ProviderRejects ==
    /\ failedAt = ""
    /\ \E i \in Outstanding :
          \/ /\ failedAt' = signRequests[i].api
             /\ awaiting' = ""
             /\ UNCHANGED signMode
          \/ /\ signRequests[i].api = "signPsbts"
             /\ wallet.walletType = "xverse"
             /\ signMode' = "sequential"
             /\ awaiting' = ""
             /\ UNCHANGED failedAt
    /\ UNCHANGED <<selVars, appVars, txVars, flow, pc, signed, signRequests,
                   broadcasts, commitTxId, signedCommitId>>
    /\ UNCHANGED <<encVars, utxosJson, groupVars>>

SignNext ==
    \/ SignPsbtsBatch
    \/ SignPsbtsLoop
    \/ ProviderResolves
    \/ ProviderRejects

SignSpec == SignInit /\ [][SignNext]_vars

\* C22: at most one signing request is outstanding at any time, and a request
\* that follows a single-PSBT request was issued after that one resolved.
C22_OneSigningRoundTrip ==
    /\ Cardinality(Outstanding) <= 1
    /\ \A i \in 2..Len(signRequests) :
          signRequests[i - 1].api = "signPsbt" =>
              Range(signRequests[i - 1].psbts) \subseteq signed

\* The second request of the loop is with the provider, the first one resolved.
C22_Witness ==
    /\ Len(signRequests) >= 2
    /\ LastRequest = [api |-> "signPsbt", psbts |-> <<"reveal">>]
    /\ Outstanding = {Len(signRequests)}
    /\ "commit" \in signed

(***************************************************************************)
(* FlowEventSpec: the flow functions with the wallet's account events      *)
(* delivered while a flow is suspended                                     *)
(***************************************************************************)
\* The Unisat / OKX listener for a new account (wallets.js 451-462, 712-722)
\* run while the flow waits for the wallet or the network: it assigns the
\* fields of the instance, the object the flow's `wallet` refers to.
InstanceAccountChanged ==
    /\ Running
    /\ awaiting # ""
    /\ wallet.walletType \in {"unisat", "okx"}
    /\ wallet.paymentAddress # "none"
    /\ \E a \in AccountsOf(wallet.walletType) :
          wallet' = [wallet EXCEPT !.paymentAddress = a[1], !.ordinalsAddress = a[2]]
    /\ UNCHANGED <<isConnected, creationMethod, startedFlows, pendingAccount>>
    /\ UNCHANGED <<selVars, flowVars, txVars>>
    /\ UNCHANGED <<encVars, utxosJson, groupVars>>

\* handleDisconnect (wallets.js 273-281) run while the flow is suspended
\* (Unisat/OKX on an empty account, Xverse on any account change): the fields
\* of the instance become null and the listener is removed.
InstanceDisconnected ==
    /\ Running
    /\ awaiting # ""
    /\ wallet.walletType \in {"unisat", "okx", "xverse"}
    /\ wallet.paymentAddress # "none"
    /\ wallet' = [wallet EXCEPT !.paymentAddress = "none", !.ordinalsAddress = "none"]
    /\ UNCHANGED <<isConnected, creationMethod, startedFlows, pendingAccount>>
    /\ UNCHANGED <<selVars, flowVars, txVars>>
    /\ UNCHANGED <<encVars, utxosJson, groupVars>>

FlowEventNext ==
    \/ FlowNext
    \/ InstanceAccountChanged
    \/ InstanceDisconnected

FlowEventSpec == FlowInit /\ [][FlowEventNext]_vars

\* C23: the wallet fields a running flow reads are one snapshot. Unisat and OKX
\* store one address as payment and ordinals address, so under a snapshot the
\* reveal pays the address the commit's inputs were typed by.
C23_FixedSnapshot ==
    (RevealBuilt /\ wallet.walletType \in {"unisat", "okx"}) =>
        \A i \in 1..Len(revealTemplate.outputs) :
            \A j \in 1..Len(commitTemplate.inputs) :
                revealTemplate.outputs[i].address = commitTemplate.inputs[j].addressType

(***************************************************************************)
(* Order of the candidate list (checked under SelSpec)                     *)
(***************************************************************************)
\* The orderings of a list: the list read through a permutation of positions.
Orderings(us) ==
    { [i \in 1..Len(us) |-> us[p[i]]] :
        p \in { f \in [1..Len(us) -> 1..Len(us)] :
                  \A i, j \in 1..Len(us) : f[i] = f[j] => i = j } }

\* What a caller can tell of a call: that it threw, or the set it returned.
Outcome(result) ==
    IF result.kind = "throw" THEN {"Insufficient funds"}
    ELSE { result.selected[i] : i \in 1..Len(result.selected) }

\* C24: every ordering of the same candidates with the same target gives the
\* same set of UTXOs, or throws whenever the call made threw.
C24_OrderIndependent ==
    Called => \A other \in Orderings(utxos) :
                 Outcome(selectUtxos(other, targetAmount)) = Outcome(selection)

(***************************************************************************)
(* Fee formulas (checked under CommitSpec)                                 *)
(***************************************************************************)
\* The stated input weights, in quarter vbytes: 40+1+66/4, 40+1+108/4,
\* 40+24+108/4 and 40+108, each times four.
StatedInputQuarterVBytes(addressType) ==
    CASE addressType = "P2TR"        -> 160 + 4 + 66
      [] addressType = "P2WPKH"      -> 160 + 4 + 108
      [] addressType = "P2SH-P2WPKH" -> 160 + 96 + 108
      [] addressType = "P2PKH"       -> 160 + 432

\* Four times the stated commit fee before rounding: (10.5 + 2 x 43) x feeRate
\* plus feeRate x inputWeight for each selected UTXO.
StatedCommitFeeQuarters ==
    (42 + 2 * 172) * feeRate
      + Len(selection.selected) * feeRate * StatedInputQuarterVBytes(wallet.paymentAddress)

\* The smallest integer not below q / 4, for q >= 0.
CeilQuarters(q) == (q + 3) \div 4

\* C25: after getCommitTransaction every candidate's effectiveValue is value -
\* feeRate x inputWeight(addressType), the commit output carries the estimated
\* reveal fee revealVsize x feeRate + total postage, and the change paid is the
\* selected value less that fee and less the estimated commit fee
\* ceil((10.5 + 2 x 43) x feeRate + sum of feeRate x inputWeight).
C25_FeeFormulas ==
    selection # NotSelected =>
        /\ \A i \in 1..Len(utxos) :
              2 * utxos[i].effectiveValue =
                  4 * utxos[i].value
                    - feeRate * StatedInputQuarterVBytes(wallet.paymentAddress)
        /\ commitTemplate # NoTemplate =>
              /\ commitTemplate.outputs[1].value =
                    revealVSize * feeRate + TotalPostage(inscriptions)
              /\ Len(commitTemplate.outputs) = 2 =>
                    SumValue(selection.selected)
                        - commitTemplate.outputs[1].value
                        - commitTemplate.outputs[2].value
                      = CeilQuarters(StatedCommitFeeQuarters)

\* A commit with change whose fee before rounding is not a whole number of
\* satoshis: two taproot inputs at 1 sat/vB (211.5).
C25_Witness ==
    /\ commitTemplate # NoTemplate
    /\ Len(commitTemplate.outputs) = 2
    /\ Len(selection.selected) = 2
    /\ wallet.paymentAddress = "P2TR"
    /\ feeRate = 1
    /\ StatedCommitFeeQuarters % 4 # 0

(***************************************************************************)
(* Order of the steps of a flow (checked under FlowSpec)                   *)
(***************************************************************************)
\* What has been produced so far was produced in the stated order.
StepsInOrder ==
    /\ revealVSize > 0 => script # <<>>
    /\ selection # NotSelected => revealVSize > 0
    /\ commitTemplate # NoTemplate => selection.kind \in {"exact", "bnb", "accumulator"}
    /\ signRequests # <<>> => Len(commitTemplate.outputs) >= 1
    /\ RevealBuilt =>
          /\ Len(commitTemplate.outputs) >= 1
          /\ flow \in {"ephemeral", "two_sign"} => "commit" \in signed
    /\ broadcasts # <<>> =>
          /\ RevealBuilt
          /\ "commit" \in signed
          /\ flow # "ephemeral" => "reveal" \in signed

\* No request of a flow is a repetition of an earlier one.
NothingTwice ==
    /\ broadcasts \in {<<>>, <<"commit">>, <<"commit", "reveal">>}
    /\ \A i, j \in 1..Len(signRequests) : signRequests[i] = signRequests[j] => i = j
    /\ \A i, j \in 1..Len(Program(flow)) : Program(flow)[i] = Program(flow)[j] => i = j

\* C26: a flow moves through its statements one by one and never back; the
\* reveal script exists before the vsize estimate, the estimate before the
\* selection, the selection before the commit template, the whole template
\* before any signing request, the signed commit (where the flow signs it
\* first) before the reveal is built, the built and signed reveal before any
\* broadcast; and nothing is requested twice.
C26_FixedStepOrder ==
    [][/\ (pc' = pc \/ pc' = pc + 1)
       /\ StepsInOrder'
       /\ NothingTwice']_vars

\* An Ephemeral flow past every step: both broadcasts answered.
C26_Witness ==
    /\ flow = "ephemeral"
    /\ Finished
    /\ script # <<>>
    /\ selection.kind \in {"exact", "bnb", "accumulator"}
    /\ Len(commitTemplate.outputs) = 2
    /\ signed = {"commit"}
    /\ Len(broadcasts) = 2

(***************************************************************************)
(* EncodeSpec: the loop of intToLeBytes (App.jsx 59-66) run on a number,   *)
(* with the 32-bit operators of the language                               *)
(***************************************************************************)
\* value > 0
Positive(n) == n.hi > 0 \/ (n.hi = 0 /\ n.lo > 0)

\* The conversion `&` and `>>` apply to their left operand: the number modulo
\* 2^32, read as a signed 32-bit integer.
ToInt32(n) ==
    LET h == n.hi % 65536
    IN  (IF h >= 32768 THEN h - 65536 ELSE h) * 65536 + n.lo

\* A signed 32-bit integer as halves (lo in 0..65535, hi negative below zero).
FromInt32(i) == Halves(i \div 65536, i % 65536)

\* Numbers around each byte boundary, around 2^31 and around 2^32.
EncodeInputs ==
    { Halves(hi, lo) : hi \in {0, 1, 255, 256, 32767, 32768, 32769, 65535, 65536, 65537},
                       lo \in {0, 1, 255, 256, 65535} }

EncodeInit ==
    /\ encInput \in EncodeInputs
    /\ encValue = encInput
    /\ encBytes = <<>>
    /\ utxosJson = <<>>
    /\ GroupIdle
    /\ SelIdle
    /\ AppIdle
    /\ FlowIdle
    /\ TxIdle

\* while (value > 0) { bytes.push(value & 0xff); value >>= 8; }
LoopIteration ==
    /\ Positive(encValue)
    /\ encBytes' = Append(encBytes, encValue.lo % 256)
    /\ encValue' = FromInt32(ToInt32(encValue) \div 256)
    /\ UNCHANGED <<encInput, utxosJson, selVars, appVars, flowVars, txVars, groupVars>>

EncodeNext == LoopIteration

EncodeSpec == EncodeInit /\ [][EncodeNext]_vars

\* The loop has ended: intToLeBytes returns Buffer.from(bytes).
EncodeReturned == ~Positive(encValue)

ByteAt(bytes, i) == IF i <= Len(bytes) THEN bytes[i] ELSE 0

\* The number a byte string of up to six bytes is, read little-endian.
DecodeLe(bytes) ==
    Halves(ByteAt(bytes, 3) + 256 * ByteAt(bytes, 4) + 65536 * ByteAt(bytes, 5)
             + 16777216 * ByteAt(bytes, 6),
           ByteAt(bytes, 1) + 256 * ByteAt(bytes, 2))

\* C28: the bytes intToLeBytes returns for a non-negative integer, also one of
\* 2^31 or more, decode little-endian to that integer and do not end in a zero
\* byte.
C28_MinimalLittleEndian ==
    EncodeReturned =>
        /\ Len(encBytes) <= 6
        /\ DecodeLe(encBytes) = encInput
        /\ encBytes # <<>> => encBytes[Len(encBytes)] # 0

(***************************************************************************)
(* FetchSpec: getConfirmedCardinalUtxos (App.jsx 659-685) applied to the   *)
(* UTXO list the data provider returns for the payment address             *)
(***************************************************************************)
MaxFetched == 2    \* longest address/utxo response

\* Values around the filter's threshold, and the two confirmation states.
JsonUtxoLists ==
    UNION { { [i \in 1..n |-> [id |-> i, value |-> v[i], confirmed |-> c[i]]] :
                v \in [1..n -> {546, 1000, 1001, 5000}], c \in [1..n -> BOOLEAN] } :
            n \in 0..MaxFetched }

IsConfirmed(utxo) == utxo.confirmed
AboveThreshold(utxo) == utxo.value > 1000

\* getConfirmedCardinalUtxos on network net, for the response body json and the
\* outpoints cardinalOutpoints of the cardinal list (fetched on mainnet only).
getConfirmedCardinalUtxos(net, json, cardinalOutpoints) ==
    LET confirmedUtxos ==
            IF net = "testnet"
            THEN SelectSeq(json, AboveThreshold)
            ELSE SelectSeq(SelectSeq(json, IsConfirmed), AboveThreshold)
        IsCardinal(utxo) == utxo.id \in cardinalOutpoints
    IN  IF net = "mainnet" THEN SelectSeq(confirmedUtxos, IsCardinal)
        ELSE confirmedUtxos

FetchInit ==
    /\ utxosJson \in JsonUtxoLists
    /\ SelIdle
    /\ AppIdle
    /\ FlowIdle
    /\ TxIdle
    /\ EncIdle
    /\ GroupIdle

\* let utxos = await getConfirmedCardinalUtxos(paymentAddress) (App.jsx 524),
\* on the App's network.
GetConfirmedCardinalUtxos ==
    /\ utxos = <<>>
    /\ \E cardinalOutpoints \in SUBSET (1..Len(utxosJson)) :
          utxos' = getConfirmedCardinalUtxos(network, utxosJson, cardinalOutpoints)
    /\ UNCHANGED <<targetAmount, selection, utxosJson, appVars, flowVars, txVars, encVars,
                   groupVars>>

FetchNext == GetConfirmedCardinalUtxos

FetchSpec == FetchInit /\ [][FetchNext]_vars

\* C29: every UTXO in the list handed to coin selection is confirmed and worth
\* more than 1000.
C29_CandidatesConfirmed ==
    \A i \in 1..Len(utxos) : utxos[i].confirmed /\ utxos[i].value > 1000

(***************************************************************************)
(* The subsets branch-and-bound visits (checked under SelSpec)             *)
(***************************************************************************)
\* The selections explore was called with in the branchAndBound call made.
Visited == exploreCalls(utxos, <<>>, 0, 0, targetAmount)

\* Where a candidate sits in the sorted list (ids are distinct).
PositionOf(u) == CHOOSE j \in 1..Len(utxos) : utxos[j] = u

\* C30: every selection branch-and-bound visits takes its UTXOs from strictly
\* increasing positions of the sorted list, no two visits have the same
\* UTXOs, and the solution returned is one of the visited selections.
C30_EachSubsetOnce ==
    selection.bnb.called =>
        LET visited == Visited
            n == Len(visited)
        IN  /\ \A k \in 1..n :
                  \A a, b \in 1..Len(visited[k]) :
                      a < b => PositionOf(visited[k][a]) < PositionOf(visited[k][b])
            /\ \A k, m \in 1..n :
                  Range(visited[k]) = Range(visited[m]) => k = m
            /\ selection.bnb.found =>
                  \E k \in 1..n : visited[k] = selection.bnb.bestSolution

\* A search over four candidates, two of them of equal effective value, that
\* visits more than eight selections and skips the first candidate in its
\* solution.
C30_Witness ==
    /\ selection.bnb.called
    /\ selection.bnb.found
    /\ Len(utxos) = 4
    /\ utxos[2].effectiveValue = utxos[3].effectiveValue
    /\ Len(Visited) > 8
    /\ utxos[1] \notin Range(selection.bnb.bestSolution)

(***************************************************************************)
(* Termination of selectUtxos (checked under SelSpec)                      *)
(***************************************************************************)
\* C31: every call of selectUtxos ends, with a selection or with the throw,
\* whatever the list and the target, and its branch-and-bound makes at most
\* one call of explore per subset of the candidates.
C31_SelectUtxosTerminates ==
    [][/\ selection'.kind \in {"exact", "bnb", "accumulator", "throw"}
       /\ selection'.bnb.called => Len(Visited') <= 2 ^ Len(utxos')]_vars

\* A call that ended on target 0 with candidates of negative effective value:
\* branch-and-bound ran and returned the empty selection from its first call.
C31_Witness ==
    /\ Called
    /\ targetAmount = 0
    /\ selection.bnb.called
    /\ Len(utxos) = 4
    /\ utxos[1].effectiveValue < 0
    /\ selection.selected = <<>>
    /\ Len(Visited) = 1

(***************************************************************************)
(* Fee the commit pays (checked under CommitSpec)                          *)
(***************************************************************************)
RECURSIVE SumOutputs(_)
SumOutputs(outputs) ==
    IF outputs = <<>> THEN 0 ELSE Head(outputs).value + SumOutputs(Tail(outputs))

\* Inputs less outputs of the commit template.
FeePaid == SumValue(selection.selected) - SumOutputs(commitTemplate.outputs)

\* C32: for every commit template built, the leftover (selected value less the
\* estimated commit fee and the estimated reveal fee) is not negative; the fee
\* the template pays is at least the estimated commit fee and less than it
\* plus 546, a leftover below 546 being paid as fee and not as an output.
C32_FeePaidWithinDust ==
    commitTemplate # NoTemplate =>
        /\ Leftover >= 0
        /\ FeePaid >= CeilQuarters(StatedCommitFeeQuarters)
        /\ FeePaid < CeilQuarters(StatedCommitFeeQuarters) + 546
        /\ Leftover < 546 =>
              /\ Len(commitTemplate.outputs) = 1
              /\ FeePaid = CeilQuarters(StatedCommitFeeQuarters) + Leftover

\* A template over one UTXO whose leftover of 545 goes to the fee.
C32_Witness ==
    /\ commitTemplate # NoTemplate
    /\ Len(commitTemplate.inputs) = 1
    /\ Leftover = 545
    /\ FeePaid = CeilQuarters(StatedCommitFeeQuarters) + 545

(***************************************************************************)
(* Commit id known before signing (checked under Spec)                     *)
(***************************************************************************)
\* C33: whenever the one-sign method is chosen for the wallet (and whenever
\* the One-sign flow is started), the payment address is P2TR or P2WPKH and the
\* id of the signed commit is the id of the unsigned template; a wallet that
\* can sign the reveal but pays from a legacy or nested address gets the
\* two-sign method.
C33_OneSignCommitIdStable ==
    /\ (creationMethod = "wallet_one_sign" \/ "one_sign" \in startedFlows) =>
          /\ wallet.paymentAddress \in {"P2TR", "P2WPKH"}
          /\ SignedCommitIdOf(wallet) = TemplateCommitId
    /\ (Dispatched /\ HasTaproot(wallet) /\ wallet.supportsCustomAddressSigning
          /\ wallet.paymentAddress \in {"P2SH-P2WPKH", "P2PKH"}) =>
          creationMethod = "wallet_two_sign"

\* createInscriptions chose the one-sign method for a wallet paying from a
\* P2WPKH address with a taproot ordinals address.
C33_Witness ==
    /\ creationMethod = "wallet_one_sign"
    /\ wallet.paymentAddress = "P2WPKH"
    /\ wallet.ordinalsAddress = "P2TR"
    /\ SignedCommitIdOf(wallet) = TemplateCommitId

(***************************************************************************)
(* Order of the two broadcasts (checked under FlowSpec)                    *)
(***************************************************************************)
\* The reveal carries its signature: the wallet signed it, or (Ephemeral flow)
\* getRevealTransactionV2 signed it with the key pair of the flow.
RevealSigned ==
    IF flow = "ephemeral" THEN Passed("revealFromSigned") ELSE "reveal" \in signed

\* C34: the commit broadcast request is issued only after the commit and the
\* reveal are both signed and extracted; the reveal broadcast request is issued
\* only after the commit broadcast returned; the reveal is never broadcast
\* before or without the commit, and neither is sent twice.
C34_CommitThenReveal ==
    /\ broadcasts \in {<<>>, <<"commit">>, <<"commit", "reveal">>}
    /\ broadcasts # <<>> =>
          /\ "commit" \in signed
          /\ RevealSigned
          /\ Passed("extractCommit")
          /\ Passed("extractReveal")
    /\ "reveal" \in Range(broadcasts) => Passed("broadcastCommit")

\* A flow that ran to its end: both requests were issued, commit first.
C34_Witness ==
    /\ Finished
    /\ broadcasts = <<"commit", "reveal">>
    /\ "commit" \in signed
    /\ Passed("extractReveal")

(***************************************************************************)
(* getRevealScript called again on the same list (checked under ScriptSpec)*)
(***************************************************************************)
\* The call getRevealVSize makes through getRevealTapscriptData, on the list
\* the first call left behind.
DryRun == getRevealScript(inscriptions, dummyPublicKey)

\* C35: after getRevealScript has run on a list, running it again on the same
\* list with the dry-run key leaves every inscription (its pointer included) as
\* it is and yields the same envelopes; the two scripts differ in the public
\* key element only.
C35_SecondCallChangesNothing ==
    script # <<>> =>
        LET again == DryRun
        IN /\ again.inscriptions = inscriptions
           /\ Len(again.script) = Len(script)
           /\ Tail(again.script) = Tail(script)
           /\ script[1] = Push(revealPublicKey)
           /\ again.script[1] = Push(dummyPublicKey)

\* After the first call on three inscriptions that came with pointers set:
\* the second and third pointers were overwritten, and the second call builds
\* a script with another key.
C35_Witness ==
    /\ script # <<>>
    /\ Len(inscriptions) = 3
    /\ inscriptions[1].pointer = Some(7)
    /\ inscriptions[2].pointer = Some(1000)
    /\ inscriptions[3].pointer = Some(1546)
    /\ DryRun.script # script
    /\ DryRun.inscriptions = inscriptions

(***************************************************************************)
(* Connection flag and wallet state (checked under Spec)                   *)
(***************************************************************************)
\* C36: after any interleaving of connectWallet, disconnectWallet and the
\* account-change callbacks (a suspended Unisat accountsChanged handler
\* included), isConnected is true exactly when wallet is non-null.
C36_ConnectedIffWallet ==
    isConnected <=> wallet # NoWallet

(***************************************************************************)
(* What selectUtxos does to the candidate list (checked under SelSpec)     *)
(***************************************************************************)
\* C37: the list selectUtxos returns holds no UTXO twice and only UTXOs of the
\* candidate list; the call leaves the candidate list with the same UTXOs,
\* each unchanged, ordered ascending by effectiveValue.
C37_SelectionFromCandidates ==
    [][(selection.kind = "none" /\ selection'.kind # "none") =>
          LET selected == selection'.selected
          IN /\ \A i \in 1..Len(selected) : selected[i] \in Range(utxos)
             /\ \A i, j \in 1..Len(selected) : i # j => selected[i].id # selected[j].id
             /\ Len(utxos') = Len(utxos)
             /\ Range(utxos') = Range(utxos)
             /\ \A i \in 1..(Len(utxos') - 1) :
                   utxos'[i].effectiveValue <= utxos'[i + 1].effectiveValue]_vars

\* Branch and bound returned two of four candidates, and the sort moved the
\* last candidate to the front.
C37_Witness ==
    /\ selection.kind = "bnb"
    /\ Len(selection.selected) = 2
    /\ Len(utxos) = 4
    /\ utxos[1].id = 4
    /\ utxos[4].id # 4

(***************************************************************************)
(* GroupSpec: getInputsToSignGroupedNameless applied once                  *)
(* (wallets.js 283-316), as XverseWallet.signPsbt calls it.  An address is  *)
(* written as the kind of its script; a PSBT input is the address its      *)
(* prevout pays to, or "missing" when it carries neither nonWitnessUtxo    *)
(* nor witnessUtxo.                                                        *)
(***************************************************************************)
MaxInputs == 2   \* most inputs of the PSBT
MaxHints == 2    \* most entries of signingIndexes

\* Xverse instances whose ordinals address is taproot: one paying from a
\* nested segwit address, one paying from its ordinals address.
GroupWallets ==
    { w \in ConnectedWallets : /\ w.walletType = "xverse"
                               /\ w.ordinalsAddress = "P2TR"
                               /\ w.paymentAddress \in {"P2SH-P2WPKH", "P2TR"} }

InputAddresses == {"P2TR", "P2SH-P2WPKH", "OTHER"}

PsbtInputLists ==
    UNION { [1..n -> InputAddresses \cup {"missing"}] : n \in 0..MaxInputs }

\* {index, address} entries; indexes count from 0.
Hints == [index : 0..(MaxInputs - 1), address : InputAddresses]

\* signingIndexes = null, or an array (an empty array is truthy).
SigningIndexesChoices ==
    {null} \cup { Some(h) : h \in UNION { [1..n -> Hints] : n \in 0..MaxHints } }

\* const inputsToSign = { [this.ordinalsAddress]: [], [this.paymentAddress]: [] }
emptyGroups(w) == [a \in {w.ordinalsAddress, w.paymentAddress} |-> <<>>]

RECURSIVE groupHinted(_, _, _)
\* signingIndexes.forEach(idx => { if (payment) push; if (ordinals) push })
groupHinted(w, hints, groups) ==
    IF hints = <<>> THEN groups
    ELSE LET idx == Head(hints)
             afterPayment ==
                 IF idx.address = w.paymentAddress
                 THEN [groups EXCEPT ![w.paymentAddress] = Append(@, idx.index)]
                 ELSE groups
             afterOrdinals ==
                 IF idx.address = w.ordinalsAddress
                 THEN [afterPayment EXCEPT ![w.ordinalsAddress] = Append(@, idx.index)]
                 ELSE afterPayment
         IN  groupHinted(w, Tail(hints), afterOrdinals)

RECURSIVE groupScanned(_, _, _, _)
\* psbt.data.inputs.forEach((input, i) => ...) from input i (0-based) on
groupScanned(w, inputs, i, groups) ==
    IF i >= Len(inputs) THEN groups
    ELSE LET address == inputs[i + 1]
         IN  groupScanned(w, inputs, i + 1,
                 IF address = w.paymentAddress \/ address = w.ordinalsAddress
                 THEN [groups EXCEPT ![address] = Append(@, i)]
                 ELSE groups)

\* getInputsToSignGroupedNameless; getInputAddress throws on an input that has
\* neither nonWitnessUtxo nor witnessUtxo, and only the hint-less branch calls it.
getInputsToSignGroupedNameless(w, inputs, hints) ==
    IF hints # null
    THEN [called |-> TRUE, threw |-> FALSE,
          groups |-> groupHinted(w, hints[1], emptyGroups(w))]
    ELSE IF \E k \in 1..Len(inputs) : inputs[k] = "missing"
    THEN [called |-> TRUE, threw |-> TRUE, groups |-> emptyGroups(w)]
    ELSE [called |-> TRUE, threw |-> FALSE,
          groups |-> groupScanned(w, inputs, 0, emptyGroups(w))]

GroupInit ==
    /\ wallet \in GroupWallets
    /\ isConnected = TRUE
    /\ creationMethod = "none"
    /\ startedFlows = {}
    /\ pendingAccount = "none"
    /\ psbtInputs \in PsbtInputLists
    /\ signingIndexes \in SigningIndexesChoices
    /\ inputsToSign = NotGrouped
    /\ SelIdle
    /\ FlowIdle
    /\ TxIdle
    /\ EncIdle
    /\ FetchIdle

\* const inputsToSign = this.getInputsToSignGroupedNameless(psbt, signingIndexes)
\* (wallets.js 520)
GetInputsToSignGroupedNameless ==
    /\ ~inputsToSign.called
    /\ inputsToSign' = getInputsToSignGroupedNameless(wallet, psbtInputs, signingIndexes)
    /\ UNCHANGED <<psbtInputs, signingIndexes, selVars, appVars, flowVars, txVars,
                   encVars, utxosJson>>

GroupNext == GetInputsToSignGroupedNameless

GroupSpec == GroupInit /\ [][GroupNext]_vars

\* How often v occurs in seq.
Occurrences(seq, v) == Cardinality({ k \in 1..Len(seq) : seq[k] = v })

\* The hints that name every input once, in order, with the address it has.
HintsOf(inputs) == [k \in 1..Len(inputs) |-> [index |-> k - 1, address |-> inputs[k]]]

\* C38: given hints that name no index twice, every hinted index whose address
\* is the payment or ordinals address occurs exactly once in the group of that
\* address, hints for other addresses are dropped, and for hints that name
\* every input with its own address the result is the one of the hint-less
\* branch; all this also when paymentAddress equals ordinalsAddress.
C38_HintedIndexOnce ==
    (/\ inputsToSign.called
     /\ signingIndexes # null
     /\ \A j, k \in 1..Len(signingIndexes[1]) :
           j # k => signingIndexes[1][j].index # signingIndexes[1][k].index)
    => LET hints == signingIndexes[1]
           own == {wallet.paymentAddress, wallet.ordinalsAddress}
           groups == inputsToSign.groups
       IN /\ \A k \in 1..Len(hints) :
                hints[k].address \in own =>
                    Occurrences(groups[hints[k].address], hints[k].index) = 1
          /\ \A a \in own : \A k \in 1..Len(groups[a]) :
                \E h \in Range(hints) : h.index = groups[a][k] /\ h.address = a
          /\ (hints = HintsOf(psbtInputs)) =>
                groups = getInputsToSignGroupedNameless(wallet, psbtInputs, null).groups

====
